---- MODULE Spec2Model ----
(***************************************************************************)
(* A model of the query/storage layer of 4n6time-go:                       *)
(*   - package query: the predicate algebra (Simple, DateRange, Combine,   *)
(*     whereClauseWithDialect) and the Query builder;                      *)
(*   - package database: the SQLite and PostgreSQL stores (InsertEvents,   *)
(*     UpdateEvent, GetDistinctValues, UpdateMetadata).                    *)
(*                                                                         *)
(* Go strings are TLA+ strings: SQL text is built with \o as the code      *)
(* builds it with + and fmt.Sprintf, and data values are inspected         *)
(* character by character with Len and SubSeq.  A nil *Predicate is the    *)
(* record Nil.  A pointer to a Predicate is the pair of its address and    *)
(* its (immutable) pointee.                                                *)
(***************************************************************************)
EXTENDS Integers, Sequences, FiniteSets, Bags, TLC

VARIABLES
    preds,      \* the []*Predicate slice the caller is assembling for Combine
    simpleRet,  \* the last call of Simple: its arguments and what it returned
    combineRet, \* the last call of Combine: its arguments and what it returned
    q,          \* the Query object
    qret,       \* the last call on the Query: operation, arguments, results
    backend,    \* which Store implementation is open: "sqlite" or "pgx"
    events,     \* the log2timeline table: a sequence of rows in insertion order
    serial,     \* PostgreSQL: the last value of the id sequence
    meta,       \* the l2t_<column>s frequency tables: column -> bag of rows
    tags,       \* the l2t_tags table: a bag of rows
    sret,       \* the last call on the Store: operation, arguments, results
    saved,      \* the l2t_saved_query table: a sequence of rows
    app,        \* the App object: its store and driver fields
    notes,      \* the examiner_notes table: a sequence of rows
    noteSerial, \* PostgreSQL: the last value of the examiner_notes id sequence
    indexes,    \* the names of the indexes on the log2timeline table
    rawWhere,   \* the rawWhere field of the RawQuery that embeds the Query
    dbfile,     \* the path (or connection string) of the database of the store
    loop,       \* the InsertEvents call in progress: its position and its callbacks
    toggles     \* the ToggleBookmark calls in flight, one record per caller

predVars == <<preds, simpleRet, combineRet>>
queryVars == <<q, qret, rawWhere>>
moreVars == <<indexes, dbfile, loop, toggles>>
otherVars == <<saved, app, notes, noteSerial, moreVars>>
storeVars == <<backend, events, serial, meta, tags, sret, otherVars>>
vars == <<preds, simpleRet, combineRet, q, qret, backend, events, serial, meta, tags, sret,
          saved, app, notes, noteSerial, indexes, rawWhere, dbfile, loop, toggles>>

-----------------------------------------------------------------------------
(* Bounds of the model.                                                    *)

\* longest slice handed to Combine
MaxPreds == 3
\* longest predicate list of a Query
MaxQueryPreds == 2
\* largest page number passed to SetPage
MaxPage == 2
\* most rows the event table is allowed to grow to
MaxRows == 2
\* the longest slice passed to InsertEvents
MaxBatch == 2

-----------------------------------------------------------------------------
(* package model                                                           *)

Fields ==
    << "datetime", "timezone", "MACB", "source", "sourcetype", "type",
       "user", "host", "desc", "filename", "inode",
       "notes", "format", "extra", "reportnotes", "inreport",
       "tag", "color", "offset", "store_number", "store_index",
       "vss_store_number", "URL", "record_number", "event_identifier",
       "event_type", "source_name", "user_sid", "computer_name" >>

-----------------------------------------------------------------------------
(* package query: operators, predicates                                    *)

AND == "AND"
OR == "OR"

Equal == "="
NotEqual == "!="
Like == "LIKE"
NotLike == "NOT LIKE"
GreaterOrEqual == ">="
LessOrEqual == "<="

validOperators == {Equal, NotEqual, Like, NotLike, GreaterOrEqual, LessOrEqual}

predNone == "predNone"
predSimple == "predSimple"
predDate == "predDate"
predComposite == "predComposite"

\* a nil *Predicate
Nil == [kind |-> "nil"]

\* isValidField checks a field name against the known columns.
isValidField_NoCheck(name) == TRUE

isValidField(name) == \E i \in 1..Len(Fields) : Fields[i] = name

\* Simple: nil for an unknown field or operator, else a predSimple node.
Simple_AnyOperator(field, op, value) ==
    IF ~isValidField(field)
    THEN Nil
    ELSE [kind |-> predSimple, field |-> field, op |-> op, value |-> value]

Simple(field, op, value) ==
    IF ~isValidField(field) \/ op \notin validOperators
    THEN Nil
    ELSE [kind |-> predSimple, field |-> field, op |-> op, value |-> value]

DateRange(date1, date2) ==
    [kind |-> predDate, date1 |-> date1, date2 |-> date2]

Composite(l, r, logic) ==
    [kind |-> predComposite, left |-> l, right |-> r, logic |-> logic]

\* the loop "for i := 2; i < len(filtered); i++" of Combine, from index i
\* (1-based here) with the tree built so far in result
RECURSIVE CombineFrom(_, _, _, _)
CombineFrom(filtered, i, result, logic) ==
    IF i > Len(filtered)
    THEN result
    ELSE CombineFrom(filtered, i + 1, Composite(result, filtered[i], logic), logic)

\* a variant that nests the later predicates on the right
RECURSIVE CombineRight(_, _)
CombineRight(filtered, logic) ==
    IF Len(filtered) = 1
    THEN filtered[1]
    ELSE Composite(filtered[1], CombineRight(Tail(filtered), logic), logic)

Combine_RightNested(ps, logic) ==
    LET filtered == SelectSeq(ps, LAMBDA p : p # Nil)
    IN  IF Len(filtered) = 0 THEN Nil ELSE CombineRight(filtered, logic)

Combine(ps, logic) ==
    LET filtered == SelectSeq(ps, LAMBDA p : p # Nil)
    IN  IF Len(filtered) = 0 THEN Nil
        ELSE IF Len(filtered) = 1 THEN filtered[1]
        ELSE CombineFrom(filtered, 3,
                         Composite(filtered[1], filtered[2], logic), logic)

-----------------------------------------------------------------------------
(* The query dialects: "sqlite" is sqliteQueryDialect / SQLiteDialect,     *)
(* "pgx" is PostgresDialect (named by their DriverName).                   *)

Dialects == {"sqlite", "pgx"}
DefaultDialect == "sqlite"

pgQuoteCol(name) ==
    IF name \in {"user", "desc", "offset"} THEN "\"" \o name \o "\"" ELSE name

Placeholder(d, index) ==
    IF d = "pgx" THEN "$" \o ToString(index) ELSE "?"

IDColumn(d) == IF d = "pgx" THEN "id" ELSE "rowid"

QuoteColumn(d, name) == IF d = "pgx" THEN pgQuoteCol(name) ELSE name

DateBetweenSQL(d, paramIdx1, paramIdx2) ==
    IF d = "pgx"
    THEN "(datetime BETWEEN " \o Placeholder(d, paramIdx1) \o " AND "
             \o Placeholder(d, paramIdx2) \o ")"
    ELSE "(datetime BETWEEN datetime(?) AND datetime(?))"

-----------------------------------------------------------------------------
(* Rendering                                                               *)

\* the argument a simple node binds
SimpleArg_Verbatim(p) == p.value

SimpleArg(p) ==
    IF p.op = Like \/ p.op = NotLike THEN "%" \o p.value \o "%" ELSE p.value

\* the SQL text of a simple node
SimpleSQL_Inline(p, d, startIdx) ==
    "(" \o QuoteColumn(d, p.field) \o " " \o p.op \o " '" \o p.value \o "')"

SimpleSQL(p, d, startIdx) ==
    "(" \o QuoteColumn(d, p.field) \o " " \o p.op \o " "
        \o Placeholder(d, startIdx) \o ")"

\* a rendering whose date-range node moves the index on by one only
RECURSIVE whereClause_DateTakesOneIndex(_, _, _)
whereClause_DateTakesOneIndex(p, d, startIdx) ==
    IF p = Nil THEN [sql |-> "", args |-> <<>>, next |-> startIdx]
    ELSE IF p.kind = predSimple
    THEN [sql |-> SimpleSQL(p, d, startIdx), args |-> <<SimpleArg(p)>>,
          next |-> startIdx + 1]
    ELSE IF p.kind = predDate
    THEN [sql |-> DateBetweenSQL(d, startIdx, startIdx + 1),
          args |-> <<p.date1, p.date2>>, next |-> startIdx + 1]
    ELSE IF p.kind = predComposite
    THEN LET l == whereClause_DateTakesOneIndex(p.left, d, startIdx)
             r == whereClause_DateTakesOneIndex(p.right, d, l.next)
         IN  IF l.sql = "" /\ r.sql = ""
             THEN [sql |-> "", args |-> <<>>, next |-> r.next]
             ELSE IF l.sql = ""
             THEN [sql |-> r.sql, args |-> r.args, next |-> r.next]
             ELSE IF r.sql = ""
             THEN [sql |-> l.sql, args |-> l.args, next |-> l.next]
             ELSE [sql |-> "(" \o l.sql \o " "
                            \o (IF p.logic = OR THEN "OR" ELSE "AND")
                            \o " " \o r.sql \o ")",
                   args |-> l.args \o r.args, next |-> r.next]
    ELSE [sql |-> "", args |-> <<>>, next |-> startIdx]

RECURSIVE whereClauseWithDialect(_, _, _)
whereClauseWithDialect(p, d, startIdx) ==
    IF p = Nil THEN [sql |-> "", args |-> <<>>, next |-> startIdx]
    ELSE IF p.kind = predNone THEN [sql |-> "", args |-> <<>>, next |-> startIdx]
    ELSE IF p.kind = predSimple
    THEN [sql |-> SimpleSQL(p, d, startIdx), args |-> <<SimpleArg(p)>>,
          next |-> startIdx + 1]
    ELSE IF p.kind = predDate
    THEN [sql |-> DateBetweenSQL(d, startIdx, startIdx + 1),
          args |-> <<p.date1, p.date2>>, next |-> startIdx + 2]
    ELSE IF p.kind = predComposite
    THEN LET l == whereClauseWithDialect(p.left, d, startIdx)
             r == whereClauseWithDialect(p.right, d, l.next)
         IN  IF l.sql = "" /\ r.sql = ""
             THEN [sql |-> "", args |-> <<>>, next |-> r.next]
             ELSE IF l.sql = ""
             THEN [sql |-> r.sql, args |-> r.args, next |-> r.next]
             ELSE IF r.sql = ""
             THEN [sql |-> l.sql, args |-> l.args, next |-> l.next]
             ELSE [sql |-> "(" \o l.sql \o " "
                            \o (IF p.logic = OR THEN "OR" ELSE "AND")
                            \o " " \o r.sql \o ")",
                   args |-> l.args \o r.args, next |-> r.next]
    ELSE [sql |-> "", args |-> <<>>, next |-> startIdx]

\* Predicate.WhereClause: the default dialect, placeholders from 1
WhereClause(p) ==
    LET r == whereClauseWithDialect(p, DefaultDialect, 1)
    IN  [sql |-> r.sql, args |-> r.args]

-----------------------------------------------------------------------------
(* Query                                                                   *)

\* strings.Join
RECURSIVE Join(_, _)
Join(elems, sep) ==
    IF Len(elems) = 0 THEN ""
    ELSE IF Len(elems) = 1 THEN elems[1]
    ELSE elems[1] \o sep \o Join(Tail(elems), sep)

\* New(pageSize)
New(pageSize) ==
    [predicates |-> <<>>, logic |-> AND, orderBy |-> "",
     pageSize |-> pageSize, page |-> 1, dialect |-> DefaultDialect]

\* the predicates a Query's pointers point to, in list order
Pointees(ptrs) == [i \in 1..Len(ptrs) |-> ptrs[i].pred]

\* RemovePredicate: drop the first entry whose pointer equals p
RECURSIVE RemoveFirst(_, _)
RemoveFirst(ptrs, addr) ==
    IF Len(ptrs) = 0 THEN <<>>
    ELSE IF Head(ptrs).addr = addr THEN Tail(ptrs)
    ELSE <<Head(ptrs)>> \o RemoveFirst(Tail(ptrs), addr)

\* the column list of Build and RawQuery.Build
SelectFields(d) ==
    IDColumn(d) \o ", " \o Join([i \in 1..Len(Fields) |-> QuoteColumn(d, Fields[i])], ", ")

\* the LIMIT / OFFSET clause of Build
LimitClause_PageTimesSize(query) ==
    IF query.pageSize > 0
    THEN " LIMIT " \o ToString(query.pageSize) \o " OFFSET "
             \o ToString(query.pageSize * query.page)
    ELSE ""

LimitClause(query) ==
    IF query.pageSize > 0
    THEN " LIMIT " \o ToString(query.pageSize) \o " OFFSET "
             \o ToString(query.pageSize * (query.page - 1))
    ELSE ""

\* the ORDER BY clause of Build
OrderClause(query) ==
    IF query.orderBy # ""
    THEN " ORDER BY " \o QuoteColumn(query.dialect, query.orderBy)
    ELSE ""

Build(query) ==
    LET sql0 == "SELECT " \o SelectFields(query.dialect) \o " FROM log2timeline"
        combined == Combine(Pointees(query.predicates), query.logic)
        w == whereClauseWithDialect(combined, query.dialect, 1)
        hasWhere == Len(query.predicates) > 0 /\ combined # Nil /\ w.sql # ""
        sql1 == IF hasWhere THEN sql0 \o " WHERE " \o w.sql ELSE sql0
        allArgs == IF hasWhere THEN w.args ELSE <<>>
    IN  [sql |-> sql1 \o OrderClause(query) \o LimitClause(query), args |-> allArgs]

\* a BuildCount that joins the predicates with AND whatever the logic
BuildCount_AlwaysAnd(query) ==
    LET sql0 == "SELECT COUNT(" \o IDColumn(query.dialect) \o ") FROM log2timeline"
        combined == Combine(Pointees(query.predicates), AND)
        w == whereClauseWithDialect(combined, query.dialect, 1)
        hasWhere == Len(query.predicates) > 0 /\ combined # Nil /\ w.sql # ""
    IN  [sql |-> IF hasWhere THEN sql0 \o " WHERE " \o w.sql ELSE sql0,
         args |-> IF hasWhere THEN w.args ELSE <<>>]

BuildCount(query) ==
    LET sql0 == "SELECT COUNT(" \o IDColumn(query.dialect) \o ") FROM log2timeline"
        combined == Combine(Pointees(query.predicates), query.logic)
        w == whereClauseWithDialect(combined, query.dialect, 1)
        hasWhere == Len(query.predicates) > 0 /\ combined # Nil /\ w.sql # ""
    IN  [sql |-> IF hasWhere THEN sql0 \o " WHERE " \o w.sql ELSE sql0,
         args |-> IF hasWhere THEN w.args ELSE <<>>]

\* OrderBy: the new orderBy and the error
OrderBy_SetThenValidate(query, field) ==
    IF field = "" THEN [orderBy |-> "", err |-> "nil"]
    ELSE IF ~isValidField(field) /\ field # IDColumn(query.dialect)
    THEN [orderBy |-> field, err |-> "invalid order by field: " \o field]
    ELSE [orderBy |-> field, err |-> "nil"]

OrderBy(query, field) ==
    IF field = "" THEN [orderBy |-> "", err |-> "nil"]
    ELSE IF ~isValidField(field) /\ field # IDColumn(query.dialect)
    THEN [orderBy |-> query.orderBy, err |-> "invalid order by field: " \o field]
    ELSE [orderBy |-> field, err |-> "nil"]

\* SetPage: the new page
SetPage_AcceptZero(query, page) == IF page >= 0 THEN page ELSE query.page

SetPage(query, page) == IF page >= 1 THEN page ELSE query.page

-----------------------------------------------------------------------------
(* package database: rows, binding and decoding                            *)
(*                                                                         *)
(* A model.Event is a function from the names of the struct's fields to    *)
(* their values.  A row of log2timeline is [id, cols, nulls]: cols maps    *)
(* the column names to the stored values, and nulls is the set of columns  *)
(* holding SQL NULL (their cols entry is the zero value a NULL-safe scan   *)
(* yields).                                                                *)

metadataFields ==
    <<"sourcetype", "source", "user", "host", "MACB", "color", "type", "record_number">>

\* the fields of model.Event other than ID, and the integer ones
EventFieldNames ==
    {"Timezone", "MACB", "Source", "SourceType", "Type", "User", "Host", "Desc",
     "Filename", "Inode", "Notes", "Format", "Extra", "Datetime", "ReportNotes",
     "InReport", "Tag", "Color", "Offset", "StoreNumber", "StoreIndex",
     "VSSStoreNumber", "URL", "RecordNumber", "EventID", "EventType",
     "SourceName", "UserSID", "ComputerName", "Bookmark"}

IntEventFields == {"Offset", "StoreNumber", "StoreIndex", "VSSStoreNumber", "Bookmark"}

\* model.Event{}: every field at its zero value
ZeroEvent == [f \in EventFieldNames |-> IF f \in IntEventFields THEN 0 ELSE ""]

\* the db tag of each field of model.Event: the column it belongs to
\* (Bookmark, which the stores read and write, goes with column bookmark)
dbTag ==
    [Timezone |-> "timezone", MACB |-> "MACB", Source |-> "source",
     SourceType |-> "sourcetype", Type |-> "type", User |-> "user", Host |-> "host",
     Desc |-> "desc", Filename |-> "filename", Inode |-> "inode", Notes |-> "notes",
     Format |-> "format", Extra |-> "extra", Datetime |-> "datetime",
     ReportNotes |-> "reportnotes", InReport |-> "inreport", Tag |-> "tag",
     Color |-> "color", Offset |-> "offset", StoreNumber |-> "store_number",
     StoreIndex |-> "store_index", VSSStoreNumber |-> "vss_store_number", URL |-> "URL",
     RecordNumber |-> "record_number", EventID |-> "event_identifier",
     EventType |-> "event_type", SourceName |-> "source_name", UserSID |-> "user_sid",
     ComputerName |-> "computer_name", Bookmark |-> "bookmark"]

\* the column list of InsertEventSQL, in order
InsertColumns ==
    << "timezone", "MACB", "source", "sourcetype", "type", "user", "host", "desc",
       "filename", "inode", "notes", "format", "extra", "datetime", "reportnotes",
       "inreport", "tag", "color", "offset", "store_number", "store_index",
       "vss_store_number", "URL", "record_number", "event_identifier",
       "event_type", "source_name", "user_sid", "computer_name", "bookmark" >>

\* the struct fields InsertEvents passes to stmt.Exec, in order
InsertArgFields ==
    << "Timezone", "MACB", "Source", "SourceType", "Type",
       "User", "Host", "Desc", "Filename", "Inode",
       "Notes", "Format", "Extra", "Datetime", "ReportNotes",
       "InReport", "Tag", "Color", "Offset", "StoreNumber",
       "StoreIndex", "VSSStoreNumber", "URL", "RecordNumber",
       "EventID", "EventType", "SourceName", "UserSID", "ComputerName",
       "Bookmark" >>

\* the columns QueryEvents selects after the id column, in order
QueryColumns ==
    << "timezone", "MACB", "source", "sourcetype", "type", "user", "host",
       "desc", "filename", "inode", "notes", "format", "extra", "datetime", "reportnotes",
       "inreport", "tag", "color", "offset", "store_number", "store_index", "vss_store_number",
       "URL", "record_number", "event_identifier", "event_type", "source_name", "user_sid",
       "computer_name", "bookmark" >>

\* the struct fields scanEvents and pgScanEvents fill after ID, in order
ScanFields ==
    << "Timezone", "MACB", "Source", "SourceType",
       "Type", "User", "Host", "Desc", "Filename",
       "Inode", "Notes", "Format", "Extra", "Datetime",
       "ReportNotes", "InReport", "Tag", "Color", "Offset",
       "StoreNumber", "StoreIndex", "VSSStoreNumber", "URL",
       "RecordNumber", "EventID", "EventType", "SourceName",
       "UserSID", "ComputerName", "Bookmark" >>

ColumnSet == {InsertColumns[i] : i \in 1..Len(InsertColumns)}

\* the byte 0x00; a TLA+ string cannot hold it, so "~" stands for it
NUL == "~"

\* pgSanitizeString strips null bytes
RECURSIVE pgSanitizeString(_)
pgSanitizeString(s) ==
    IF Len(s) = 0 THEN ""
    ELSE IF SubSeq(s, 1, 1) = NUL THEN pgSanitizeString(SubSeq(s, 2, Len(s)))
    ELSE SubSeq(s, 1, 1) \o pgSanitizeString(SubSeq(s, 2, Len(s)))

Digits == {"0", "1", "2", "3", "4", "5", "6", "7", "8", "9"}

\* validTimestampRe: ^\d{4}-\d{2}-\d{2}[ T]\d{2}:\d{2}:\d{2}
validTimestampRe(s) ==
    /\ Len(s) >= 19
    /\ \A i \in {1, 2, 3, 4, 6, 7, 9, 10, 12, 13, 15, 16, 18, 19} :
           SubSeq(s, i, i) \in Digits
    /\ SubSeq(s, 5, 5) = "-" /\ SubSeq(s, 8, 8) = "-"
    /\ SubSeq(s, 11, 11) \in {" ", "T"}
    /\ SubSeq(s, 14, 14) = ":" /\ SubSeq(s, 17, 17) = ":"

\* pgSanitizeDatetime: the timestamp text, or nil (SQL NULL)
pgSanitizeDatetime(s0) ==
    LET s == pgSanitizeString(s0)
    IN  IF s = "" THEN [null |-> TRUE, s |-> ""]
        ELSE IF ~validTimestampRe(s) THEN [null |-> TRUE, s |-> ""]
        ELSE IF SubSeq(s, 1, 4) = "0000" THEN [null |-> TRUE, s |-> ""]
        ELSE [null |-> FALSE, s |-> s]

\* the struct field InsertEvents binds to each column: the i-th argument of
\* stmt.Exec goes to the i-th column of InsertEventSQL
InsertBinding ==
    [c \in ColumnSet |->
        InsertArgFields[CHOOSE i \in 1..Len(InsertColumns) : InsertColumns[i] = c]]

\* the value InsertEvents passes for struct field f
InsertArg(be, e, f) ==
    IF be = "pgx"
    THEN IF f = "Datetime" THEN pgSanitizeDatetime(e[f])
         ELSE IF f \in IntEventFields THEN [null |-> FALSE, s |-> e[f]]
         ELSE [null |-> FALSE, s |-> pgSanitizeString(e[f])]
    ELSE [null |-> FALSE, s |-> e[f]]

\* the row one execution of InsertEventSQL adds
InsertedRow(be, e, id) ==
    [id |-> id,
     cols |-> [c \in ColumnSet |-> InsertArg(be, e, InsertBinding[c]).s],
     nulls |-> {c \in ColumnSet : InsertArg(be, e, InsertBinding[c]).null}]

\* the identifier the engine gives the next row: SQLite's rowid follows the
\* largest one in the table, PostgreSQL's SERIAL follows the sequence
MaxId(rows) ==
    IF Len(rows) = 0 THEN 0
    ELSE CHOOSE m \in {rows[i].id : i \in 1..Len(rows)} :
             \A i \in 1..Len(rows) : rows[i].id <= m

NextId(be, rows, seq) == IF be = "pgx" THEN seq + 1 ELSE MaxId(rows) + 1

\* the loop of InsertEvents over events[i..], inside the transaction: staged
\* is the table as the transaction sees it; failAt is the row whose
\* stmt.Exec fails (0: none)
RECURSIVE InsertLoop(_, _, _, _, _, _, _)
InsertLoop(be, staged, seq, batch, i, failAt, inserted) ==
    IF i > Len(batch)
    THEN [staged |-> staged, seq |-> seq, inserted |-> inserted, err |-> "nil"]
    ELSE IF i = failAt
    THEN [staged |-> staged, seq |-> seq, inserted |-> inserted,
          err |-> "inserting event " \o ToString(inserted + 1)]
    ELSE InsertLoop(be, Append(staged, InsertedRow(be, batch[i], NextId(be, staged, seq))),
                    IF be = "pgx" THEN seq + 1 ELSE seq,
                    batch, i + 1, failAt, inserted + 1)

\* an InsertEvents whose rows stay when a later row fails
InsertEvents_NoRollback(be, rows, seq, batch, failAt, fault) ==
    LET r == InsertLoop(be, rows, seq, batch, 1, failAt, 0)
    IN  IF fault \in {"begin", "prepare"}
        THEN [events |-> rows, serial |-> seq, count |-> 0, err |-> fault]
        ELSE [events |-> r.staged, serial |-> r.seq, count |-> r.inserted,
              err |-> IF r.err = "nil" /\ fault = "commit"
                      THEN "committing transaction" ELSE r.err]

\* InsertEvents: the table and sequence afterwards, the count and the error.
\* fault is the call that fails apart from a row's Exec: conn.Begin,
\* tx.Prepare, tx.Commit, or none.  The deferred tx.Rollback discards the
\* staged rows on every return that did not commit.
InsertEvents(be, rows, seq, batch, failAt, fault) ==
    LET r == InsertLoop(be, rows, seq, batch, 1, failAt, 0)
    IN  IF fault = "begin"
        THEN [events |-> rows, serial |-> seq, count |-> 0, err |-> "beginning transaction"]
        ELSE IF fault = "prepare"
        THEN [events |-> rows, serial |-> seq, count |-> 0,
              err |-> "preparing insert statement"]
        ELSE IF r.err # "nil"
        THEN [events |-> rows, serial |-> r.seq, count |-> r.inserted, err |-> r.err]
        ELSE IF fault = "commit"
        THEN [events |-> rows, serial |-> r.seq, count |-> r.inserted,
              err |-> "committing transaction"]
        ELSE [events |-> r.staged, serial |-> r.seq, count |-> r.inserted, err |-> "nil"]

\* the database package's isValidField
database_isValidField(name) == \E i \in 1..Len(Fields) : Fields[i] = name

\* the texts a scan can yield for a stored datetime: the stored text or, when
\* the driver hands the column over as a time, its RFC 3339 form
\* (TestInsertAndQueryEvents accepts either)
DatetimeTexts(s) ==
    IF validTimestampRe(s) /\ SubSeq(s, 1, 4) # "0000"
    THEN {s, SubSeq(s, 1, 10) \o "T" \o SubSeq(s, 12, 19) \o "Z"}
    ELSE {s}

\* the column rows.Scan stores into each struct field: the i-th selected
\* column goes to the i-th destination
ScanBinding ==
    [f \in EventFieldNames |->
        QueryColumns[CHOOSE i \in 1..Len(ScanFields) : ScanFields[i] = f]]

\* scanEvents / pgScanEvents on one row, the driver rendering datetime as dt:
\* the decoded Event, or an error when SQLite's scan meets a NULL
ScanRow(be, row, dt) ==
    [ID |-> row.id,
     err |-> be # "pgx" /\ row.nulls # {},
     fields |-> [f \in EventFieldNames |->
                    IF ScanBinding[f] = "datetime" /\ "datetime" \notin row.nulls THEN dt
                    ELSE row.cols[ScanBinding[f]]]]

\* QueryEvents("", nil, "", 0, 0): the results the call can return
QueryEvents(be, rows) ==
    LET choices == {dts \in [1..Len(rows) -> UNION {DatetimeTexts(rows[i].cols["datetime"]) :
                                                      i \in 1..Len(rows)}] :
                       \A i \in 1..Len(rows) : dts[i] \in DatetimeTexts(rows[i].cols["datetime"])}
    IN  {LET scanned == [i \in 1..Len(rows) |-> ScanRow(be, rows[i], dts[i])]
         IN  IF \E i \in 1..Len(rows) : scanned[i].err
             THEN [events |-> <<>>, err |-> "scanning event row"]
             ELSE [events |-> scanned, err |-> "nil"] : dts \in choices}

\* an UpdateEvent whose UPDATE has no WHERE clause
UpdateEvent_AllRows(be, rows, rowid, fields, execFails) ==
    IF DOMAIN fields = {} THEN [events |-> rows, err |-> "nil", execs |-> 0]
    ELSE IF \E k \in DOMAIN fields : ~database_isValidField(k)
    THEN [events |-> rows, execs |-> 0,
          err |-> "invalid field name: "
                      \o (CHOOSE k \in DOMAIN fields : ~database_isValidField(k))]
    ELSE IF execFails THEN [events |-> rows, err |-> "exec", execs |-> 1]
    ELSE [events |-> [i \in 1..Len(rows) |->
                         [rows[i] EXCEPT
                             !.cols = [c \in ColumnSet |->
                                          IF c \in DOMAIN fields THEN fields[c] ELSE @[c]],
                             !.nulls = @ \ DOMAIN fields]],
          err |-> "nil", execs |-> 1]

\* an UpdateEvent that skips the unknown keys and updates the known ones
UpdateEvent_SkipInvalid(be, rows, rowid, fields, execFails) ==
    IF DOMAIN fields = {} THEN [events |-> rows, err |-> "nil", execs |-> 0]
    ELSE [events |-> [i \in 1..Len(rows) |->
                         IF rows[i].id # rowid THEN rows[i]
                         ELSE [rows[i] EXCEPT
                                  !.cols = [c \in ColumnSet |->
                                               IF c \in DOMAIN fields THEN fields[c] ELSE @[c]],
                                  !.nulls = @ \ DOMAIN fields]],
          err |-> IF \E k \in DOMAIN fields : ~database_isValidField(k)
                  THEN "invalid field name" ELSE "nil",
          execs |-> 1]

\* UpdateEvent(rowid, fields): the table afterwards, the error, and how many
\* statements ran.  Every key is validated in the loop that builds the SET
\* clauses (in map order, returning at the first unknown one); the one
\* UPDATE runs after the loop.  execFails: conn.Exec returns an error.
UpdateEvent(be, rows, rowid, fields, execFails) ==
    IF DOMAIN fields = {} THEN [events |-> rows, err |-> "nil", execs |-> 0]
    ELSE IF \E k \in DOMAIN fields : ~database_isValidField(k)
    THEN [events |-> rows, execs |-> 0,
          err |-> "invalid field name: "
                      \o (CHOOSE k \in DOMAIN fields : ~database_isValidField(k))]
    ELSE IF execFails THEN [events |-> rows, err |-> "exec", execs |-> 1]
    ELSE [events |-> [i \in 1..Len(rows) |->
                         IF rows[i].id # rowid THEN rows[i]
                         ELSE [rows[i] EXCEPT
                                  !.cols = [c \in ColumnSet |->
                                               IF c \in DOMAIN fields THEN fields[c] ELSE @[c]],
                                  !.nulls = @ \ DOMAIN fields]],
          err |-> "nil", execs |-> 1]

\* the groups of SELECT f, COUNT(f) FROM log2timeline [WHERE f <> ''] GROUP BY f:
\* value -> count.  nonEmptyOnly is the WHERE clause; a NULL f fails it.
GroupCounts(rows, f, nonEmptyOnly) ==
    LET kept == {i \in 1..Len(rows) :
                    /\ f \notin rows[i].nulls
                    /\ nonEmptyOnly => rows[i].cols[f] # ""}
        vals == {rows[i].cols[f] : i \in kept}
    IN  [v \in vals |-> Cardinality({i \in kept : rows[i].cols[f] = v})]

\* GetDistinctValues(fieldName) on a text column: the map, the error, and how
\* many statements ran
GetDistinctValues(be, rows, fieldName) ==
    IF ~database_isValidField(fieldName)
    THEN [result |-> <<>>, err |-> "invalid field name: " \o fieldName, execs |-> 0]
    ELSE LET g == GroupCounts(rows, fieldName, FALSE)
         IN  [result |-> [v \in DOMAIN g \ {""} |-> g[v]], err |-> "nil", execs |-> 1]

MetadataFieldSet == {metadataFields[i] : i \in 1..Len(metadataFields)}

\* the metadata tables after createSchema: every l2t_<f>s table empty
EmptyMetadata == [f \in MetadataFieldSet |-> EmptyBag]

\* strings.Split(s, ","), scanning from position i with cur the segment so far
RECURSIVE SplitFrom(_, _, _)
SplitFrom(s, i, cur) ==
    IF i > Len(s) THEN <<cur>>
    ELSE IF SubSeq(s, i, i) = "," THEN <<cur>> \o SplitFrom(s, i + 1, "")
    ELSE SplitFrom(s, i + 1, cur \o SubSeq(s, i, i))

Split(s) == SplitFrom(s, 1, "")

\* the white space strings.TrimSpace removes (of the ASCII characters)
WhiteSpace == {" ", "\t", "\n", "\r"}

RECURSIVE TrimLeft(_)
TrimLeft(s) ==
    IF Len(s) > 0 /\ SubSeq(s, 1, 1) \in WhiteSpace
    THEN TrimLeft(SubSeq(s, 2, Len(s))) ELSE s

RECURSIVE TrimRight(_)
TrimRight(s) ==
    IF Len(s) > 0 /\ SubSeq(s, Len(s), Len(s)) \in WhiteSpace
    THEN TrimRight(SubSeq(s, 1, Len(s) - 1)) ELSE s

TrimSpace(s) == TrimRight(TrimLeft(s))

\* the rows INSERT INTO l2t_<f>s ... SELECT f, COUNT(f) ... WHERE f <> '' GROUP BY f adds
FrequencyRows(rows, f) ==
    LET g == GroupCounts(rows, f, TRUE)
    IN  SetToBag({[value |-> v, frequency |-> g[v]] : v \in DOMAIN g})

\* the inner loop of UpdateMetadata over the tokens of one tag string:
\* [seen, table] after tokens[i..]
RECURSIVE TagTokens(_, _, _, _)
TagTokens(tokens, i, seen, table) ==
    IF i > Len(tokens) THEN [seen |-> seen, table |-> table]
    ELSE LET t == TrimSpace(tokens[i])
         IN  IF t # "" /\ t \notin seen
             THEN TagTokens(tokens, i + 1, seen \cup {t}, table (+) SetToBag({t}))
             ELSE TagTokens(tokens, i + 1, seen, table)

\* the outer loop over the rows of SELECT DISTINCT tag ... WHERE tag <> ''
\* (the engine may return them in any order: the table does not depend on it)
RECURSIVE TagRows(_, _, _)
TagRows(tagStrs, seen, table) ==
    IF tagStrs = {} THEN table
    ELSE LET s == CHOOSE x \in tagStrs : TRUE
             r == TagTokens(Split(s), 1, seen, table)
         IN  TagRows(tagStrs \ {s}, r.seen, r.table)

DistinctTags(rows) ==
    {rows[i].cols["tag"] : i \in {j \in 1..Len(rows) :
                                     "tag" \notin rows[j].nulls /\ rows[j].cols["tag"] # ""}}

\* an UpdateMetadata without the DELETE statements
UpdateMetadata_NoDelete(rows, m, tg, fault) ==
    IF fault # "none"
    THEN [meta |-> m, tags |-> tg, err |-> fault]
    ELSE [meta |-> [f \in MetadataFieldSet |-> m[f] (+) FrequencyRows(rows, f)],
          tags |-> TagRows(DistinctTags(rows), {}, tg),
          err |-> "nil"]

\* UpdateMetadata: the metadata tables and l2t_tags afterwards, and the
\* error.  fault is the call that fails: conn.Begin, a statement inside the
\* transaction, tx.Commit, or none; the deferred tx.Rollback then restores
\* every table.
UpdateMetadata(rows, m, tg, fault) ==
    IF fault # "none"
    THEN [meta |-> m, tags |-> tg, err |-> fault]
    ELSE [meta |-> [f \in MetadataFieldSet |-> EmptyBag (+) FrequencyRows(rows, f)],
          tags |-> TagRows(DistinctTags(rows), {}, EmptyBag),
          err |-> "nil"]

-----------------------------------------------------------------------------
(* package database: the timeline histogram                                *)

\* the characters of the data, in the order of their byte values
Ascii == " ,-./0123456789:ABCDEFGHIJKLMNOPQRSTUVWXYZ_abcdefghijklmnopqrstuvwxyz"

\* the rank of a character's byte value (the null byte is the least)
CharCode(c) ==
    IF c = NUL THEN 0
    ELSE CHOOSE i \in 1..Len(Ascii) : SubSeq(Ascii, i, i) = c

\* a < b as the engines compare text (byte by byte) and as Go compares strings
RECURSIVE StrLess(_, _)
StrLess(a, b) ==
    IF Len(b) = 0 THEN FALSE
    ELSE IF Len(a) = 0 THEN TRUE
    ELSE IF SubSeq(a, 1, 1) = SubSeq(b, 1, 1)
    THEN StrLess(SubSeq(a, 2, Len(a)), SubSeq(b, 2, Len(b)))
    ELSE CharCode(SubSeq(a, 1, 1)) < CharCode(SubSeq(b, 1, 1))

\* MIN and MAX of a non-empty set of texts
MinText(S) == CHOOSE m \in S : \A x \in S : x = m \/ StrLess(m, x)

MaxText(S) == CHOOSE m \in S : \A x \in S : x = m \/ StrLess(x, m)

\* the rows a WHERE clause keeps: none, or the one-column comparison the
\* callers build ("WHERE source = ?")
RowMatches(whereClause, whereArgs, row) ==
    IF whereClause = "" THEN TRUE
    ELSE /\ whereClause = "WHERE source = ?"
         /\ "source" \notin row.nulls
         /\ row.cols["source"] = whereArgs[1]

\* the rows of the SELECTs of GetTimelineHistogram
FilteredRows(rows, whereClause, whereArgs) ==
    {i \in 1..Len(rows) : RowMatches(whereClause, whereArgs, rows[i])}

\* to_char(ts, 'YYYY-MM-DD HH24:MI:SS') of a stored TIMESTAMP
pgToChar(s) == SubSeq(s, 1, 10) \o " " \o SubSeq(s, 12, 19)

\* the text strftime and to_char can format: a date and time of day with a
\* month and a day that exist (SQLite's strftime yields NULL for the rest)
IsDateTime(s) ==
    /\ validTimestampRe(s)
    /\ SubSeq(s, 6, 7) \in {"01", "02", "03", "04", "05", "06",
                            "07", "08", "09", "10", "11", "12"}
    /\ SubSeq(s, 9, 10) # "00"

\* SELECT MIN(datetime), MAX(datetime) ... scanned into two strings.
\* SQLite: the aggregate of no (non-NULL) value is NULL, which Scan cannot
\* store in a string.  PostgreSQL: COALESCE(to_char(...), '').
DateRange_Query(be, rows, kept) ==
    LET vals == {rows[i].cols["datetime"] : i \in {j \in kept : "datetime" \notin rows[j].nulls}}
    IN  IF vals = {}
        THEN IF be = "pgx" THEN [minDate |-> "", maxDate |-> "", err |-> "nil"]
             ELSE [minDate |-> "", maxDate |-> "", err |-> "getting date range"]
        ELSE IF be = "pgx"
        THEN [minDate |-> pgToChar(MinText(vals)), maxDate |-> pgToChar(MaxText(vals)),
              err |-> "nil"]
        ELSE [minDate |-> MinText(vals), maxDate |-> MaxText(vals), err |-> "nil"]

\* the bucket format GetTimelineHistogram chooses from the date range
BucketFormat(minDate, maxDate) ==
    IF Len(minDate) >= 10 /\ Len(maxDate) >= 10
    THEN IF SubSeq(minDate, 1, 10) = SubSeq(maxDate, 1, 10) THEN "%Y-%m-%d %H:00:00"
         ELSE IF SubSeq(minDate, 1, 7) = SubSeq(maxDate, 1, 7) THEN "%Y-%m-%d"
         ELSE IF SubSeq(minDate, 1, 4) # SubSeq(maxDate, 1, 4) THEN "%Y-%m"
         ELSE "%Y-%m-%d"
    ELSE "%Y-%m-%d %H:00:00"

\* strftimeToPostgres
strftimeToPostgres(format) ==
    CASE format = "%Y-%m-%d %H:00:00" -> "YYYY-MM-DD HH24:00:00"
      [] format = "%Y-%m-%d" -> "YYYY-MM-DD"
      [] format = "%Y-%m" -> "YYYY-MM"
      [] OTHER -> format

\* Dialect.DateFormatSQL(column, format)
DateFormatSQL(be, column, format) ==
    IF be = "pgx" THEN "to_char(" \o column \o ", '" \o strftimeToPostgres(format) \o "')"
    ELSE "strftime('" \o format \o "', " \o column \o ")"

\* the value of the bucket expression for one row: the label, or NULL
BucketLabel(be, format, row) ==
    LET s == row.cols["datetime"]
        pgFmt == strftimeToPostgres(format)
    IN  IF "datetime" \in row.nulls \/ ~IsDateTime(s) THEN [null |-> TRUE, s |-> ""]
        ELSE IF (be = "pgx" /\ pgFmt = "YYYY-MM-DD HH24:00:00")
                \/ (be # "pgx" /\ format = "%Y-%m-%d %H:00:00")
        THEN [null |-> FALSE, s |-> SubSeq(s, 1, 10) \o " " \o SubSeq(s, 12, 13) \o ":00:00"]
        ELSE IF (be = "pgx" /\ pgFmt = "YYYY-MM-DD") \/ (be # "pgx" /\ format = "%Y-%m-%d")
        THEN [null |-> FALSE, s |-> SubSeq(s, 1, 10)]
        ELSE [null |-> FALSE, s |-> SubSeq(s, 1, 7)]

\* the labels of a set in ascending order (ORDER BY bucket)
RECURSIVE SortedTexts(_)
SortedTexts(S) ==
    IF S = {} THEN <<>>
    ELSE LET m == MinText(S) IN <<m>> \o SortedTexts(S \ {m})

\* the loop over the rows of the grouped query: a NULL bucket cannot be
\* scanned into TimelineBucket.Timestamp
HistogramRows(be, rows, kept, format) ==
    LET label(i) == BucketLabel(be, format, rows[i])
        labels == {label(i).s : i \in {j \in kept : ~label(j).null}}
        sorted == SortedTexts(labels)
    IN  IF \E i \in kept : label(i).null
        THEN [buckets |-> <<>>, err |-> "scanning bucket"]
        ELSE [buckets |-> [n \in 1..Len(sorted) |->
                              [Timestamp |-> sorted[n],
                               Count |-> Cardinality({i \in kept : label(i).s = sorted[n]})]],
              err |-> "nil"]

\* a GetTimelineHistogram with monthly buckets whenever the months differ
GetTimelineHistogram_MonthlyAcrossMonths(be, rows, whereClause, whereArgs) ==
    LET kept == FilteredRows(rows, whereClause, whereArgs)
        range == DateRange_Query(be, rows, kept)
        format == IF SubSeq(range.minDate, 1, 7) # SubSeq(range.maxDate, 1, 7)
                  THEN "%Y-%m" ELSE BucketFormat(range.minDate, range.maxDate)
        hist == HistogramRows(be, rows, kept, format)
    IN  IF range.err # "nil"
        THEN [buckets |-> <<>>, err |-> range.err, format |-> "", queries |-> 1, sql |-> ""]
        ELSE IF range.minDate = "" \/ range.maxDate = ""
        THEN [buckets |-> <<>>, err |-> "nil", format |-> "", queries |-> 1, sql |-> ""]
        ELSE [buckets |-> hist.buckets, err |-> hist.err, format |-> format, queries |-> 2,
              sql |-> "SELECT " \o DateFormatSQL(be, "datetime", format)
                          \o " as bucket, COUNT(*) as cnt FROM log2timeline"
                          \o (IF whereClause # "" THEN " " \o whereClause ELSE "")
                          \o " GROUP BY bucket ORDER BY bucket"]

\* GetTimelineHistogram(whereClause, whereArgs): the buckets, the error, the
\* bucket format chosen, how many queries ran and the text of the grouped one
GetTimelineHistogram(be, rows, whereClause, whereArgs) ==
    LET kept == FilteredRows(rows, whereClause, whereArgs)
        range == DateRange_Query(be, rows, kept)
        format == BucketFormat(range.minDate, range.maxDate)
        hist == HistogramRows(be, rows, kept, format)
    IN  IF range.err # "nil"
        THEN [buckets |-> <<>>, err |-> range.err, format |-> "", queries |-> 1, sql |-> ""]
        ELSE IF range.minDate = "" \/ range.maxDate = ""
        THEN [buckets |-> <<>>, err |-> "nil", format |-> "", queries |-> 1, sql |-> ""]
        ELSE [buckets |-> hist.buckets, err |-> hist.err, format |-> format, queries |-> 2,
              sql |-> "SELECT " \o DateFormatSQL(be, "datetime", format)
                          \o " as bucket, COUNT(*) as cnt FROM log2timeline"
                          \o (IF whereClause # "" THEN " " \o whereClause ELSE "")
                          \o " GROUP BY bucket ORDER BY bucket"]

-----------------------------------------------------------------------------
(* package database: bookmarks                                             *)

\* an UPDATE that sets the flag whatever it was
ToggleUpdate_SetsFlag(rows, rowid) ==
    [i \in 1..Len(rows) |->
        IF rows[i].id # rowid THEN rows[i]
        ELSE [rows[i] EXCEPT !.cols["bookmark"] = 1, !.nulls = @ \ {"bookmark"}]]

\* UPDATE log2timeline SET bookmark = CASE WHEN bookmark = 1 THEN 0 ELSE 1 END
\* WHERE <id column> = rowid
ToggleUpdate(rows, rowid) ==
    [i \in 1..Len(rows) |->
        IF rows[i].id # rowid THEN rows[i]
        ELSE [rows[i] EXCEPT
                 !.cols["bookmark"] =
                     IF "bookmark" \notin rows[i].nulls /\ @ = 1 THEN 0 ELSE 1,
                 !.nulls = @ \ {"bookmark"}]]

\* SELECT bookmark FROM log2timeline WHERE <id column> = rowid, scanned into
\* an int64: no row is sql.ErrNoRows, and a NULL cannot be stored
ToggleSelect(rows, rowid) ==
    IF \A i \in 1..Len(rows) : rows[i].id # rowid
    THEN [val |-> 0, err |-> "sql: no rows in result set"]
    ELSE LET row == rows[CHOOSE i \in 1..Len(rows) : rows[i].id = rowid]
         IN  IF "bookmark" \in row.nulls THEN [val |-> 0, err |-> "scan"]
             ELSE [val |-> row.cols["bookmark"], err |-> "nil"]

\* a ToggleBookmark whose UPDATE sets the flag instead of flipping it
ToggleBookmark_SetOnly(rows, rowid, execFails) ==
    IF execFails THEN [events |-> rows, val |-> 0, err |-> "exec"]
    ELSE LET after == [i \in 1..Len(rows) |->
                          IF rows[i].id # rowid THEN rows[i]
                          ELSE [rows[i] EXCEPT !.cols["bookmark"] = 1]]
             sel == ToggleSelect(after, rowid)
         IN  [events |-> after, val |-> sel.val, err |-> sel.err]

\* ToggleBookmark(rowid) with no other writer between its two statements:
\* the table afterwards, the value returned and the error.  execFails: the
\* UPDATE returns an error.
ToggleBookmark(rows, rowid, execFails) ==
    IF execFails THEN [events |-> rows, val |-> 0, err |-> "exec"]
    ELSE LET after == ToggleUpdate(rows, rowid)
             sel == ToggleSelect(after, rowid)
         IN  [events |-> after, val |-> sel.val, err |-> sel.err]

-----------------------------------------------------------------------------
(* package database: saved queries                                         *)

\* SaveQuery: one INSERT INTO l2t_saved_query (name, query); the table is
\* created as (name TEXT, query TEXT), with no key and no uniqueness
SaveQuery(table, name, query, execFails) ==
    IF execFails
    THEN [saved |-> table, err |-> "exec"]
    ELSE [saved |-> Append(table, [name |-> name, query |-> query]), err |-> ""]

\* DeleteQuery: DELETE FROM l2t_saved_query WHERE name = ?
DeleteQuery(table, name, execFails) ==
    IF execFails
    THEN [saved |-> table, err |-> "exec"]
    ELSE [saved |-> SelectSeq(table, LAMBDA r : r.name # name), err |-> ""]

-----------------------------------------------------------------------------
(* package main: the App                                                   *)

\* a Store the App holds is told by its backend and the database it is
\* open on; NoStore is the nil Store
NoStore == [backend |-> "", path |-> ""]

\* the database the stores of a session are open on before any import
DefaultPath(be) == IF be = "pgx" THEN "postgres://localhost/case" ELSE "case.db"

\* NewApp returns &App{}: no store, empty driver
NewApp == [store |-> NoStore, driver |-> ""]

\* the name App.driver gives a backend
DriverName(be) == IF be = "pgx" THEN "postgres" ELSE "sqlite"

\* App.loadDatabase and App.ConnectPostgres: close the open store, open the
\* database; a failed open leaves the App without a store and with the
\* driver it had
App_Open(a, be, path, openFails) ==
    IF openFails
    THEN [app |-> [a EXCEPT !.store = NoStore], err |-> "opening database"]
    ELSE [app |-> [store |-> [backend |-> be, path |-> path], driver |-> DriverName(be)],
          err |-> ""]

\* App.CloseDatabase
App_CloseDatabase(a) == IF a.store # NoStore THEN NewApp ELSE a

\* App.SaveQuery
App_SaveQuery(a, table, name, query, execFails) ==
    IF a.store = NoStore
    THEN [saved |-> table, err |-> "no database open"]
    ELSE SaveQuery(table, name, query, execFails)

\* App.DeleteSavedQuery
App_DeleteSavedQuery(a, table, name, execFails) ==
    IF a.store = NoStore
    THEN [saved |-> table, err |-> "no database open"]
    ELSE DeleteQuery(table, name, execFails)

-----------------------------------------------------------------------------
(* Examiner notes: the examiner_notes table and the identifier convention  *)

\* the id a note is presented with in the grid: the negation of its id
PresentedId(n) == 0 - n

\* a presented id handed to the note table as it is
InternalId_NoNegation(id) == id

\* the internal id a presented id stands for
InternalId(id) == 0 - id

\* the table an identifier routes to: > 0 the event table, <= 0 the notes
RouteTable(id) == IF id > 0 THEN "log2timeline" ELSE "examiner_notes"

\* the identifiers the grid shows: events as they are, notes negated
GridIds(evs, nts) ==
    [events |-> {evs[i].id : i \in 1..Len(evs)},
     notes |-> {PresentedId(nts[j].id) : j \in 1..Len(nts)}]

\* insert of a note: the backend assigns the id, color and bookmark start
\* empty
InsertExaminerNote(be, nts, seq, datetime, description, tag, execFails) ==
    IF execFails THEN [notes |-> nts, serial |-> seq, id |-> 0, err |-> "exec"]
    ELSE LET id == NextId(be, nts, seq)
         IN  [notes |-> Append(nts, [id |-> id, datetime |-> datetime,
                                     description |-> description, tag |-> tag,
                                     color |-> "", bookmark |-> 0]),
              serial |-> IF be = "pgx" THEN id ELSE seq,
              id |-> id, err |-> "nil"]

\* delete of the note with internal id n
DeleteExaminerNote(nts, n) == SelectSeq(nts, LAMBDA r : r.id # n)

\* toggle of the bookmark of the note with internal id n
ToggleNoteBookmark(nts, n) ==
    [j \in 1..Len(nts) |->
        IF nts[j].id # n THEN nts[j]
        ELSE [nts[j] EXCEPT !.bookmark = IF @ = 1 THEN 0 ELSE 1]]

\* update of the color of the note with internal id n
UpdateNoteColor(nts, n, color) ==
    [j \in 1..Len(nts) |->
        IF nts[j].id # n THEN nts[j] ELSE [nts[j] EXCEPT !.color = color]]

\* set the bookmark of the notes with an internal id in ns
SetNoteBookmarks(nts, ns, val) ==
    [j \in 1..Len(nts) |->
        IF nts[j].id \notin ns THEN nts[j] ELSE [nts[j] EXCEPT !.bookmark = val]]

\* set the color of the notes with an internal id in ns
SetNoteColors(nts, ns, color) ==
    [j \in 1..Len(nts) |->
        IF nts[j].id \notin ns THEN nts[j] ELSE [nts[j] EXCEPT !.color = color]]

\* set one column of the events with an id in ids
SetEventColumn(rows, ids, column, val) ==
    [i \in 1..Len(rows) |->
        IF rows[i].id \notin ids THEN rows[i]
        ELSE [rows[i] EXCEPT !.cols[column] = val, !.nulls = @ \ {column}]]

\* the members of a selection that route to the event table, and the
\* internal ids of those that route to the note table
EventIdsOf(ids) == {id \in ids : RouteTable(id) = "log2timeline"}

NoteIdsOf(ids) == {InternalId(id) : id \in {x \in ids : RouteTable(x) = "examiner_notes"}}

\* toggle-bookmark, update-color and delete-note on a presented identifier:
\* the sign picks the table, a note is addressed by its internal id
RoutedToggleBookmark(evs, nts, id) ==
    IF RouteTable(id) = "log2timeline"
    THEN [events |-> ToggleBookmark(evs, id, FALSE).events, notes |-> nts]
    ELSE [events |-> evs, notes |-> ToggleNoteBookmark(nts, InternalId(id))]

RoutedUpdateColor(be, evs, nts, id, color) ==
    IF RouteTable(id) = "log2timeline"
    THEN [events |-> UpdateEvent(be, evs, id, [color |-> color], FALSE).events,
          notes |-> nts]
    ELSE [events |-> evs, notes |-> UpdateNoteColor(nts, InternalId(id), color)]

RoutedDeleteNote(evs, nts, id) ==
    IF RouteTable(id) = "log2timeline"
    THEN [events |-> evs, notes |-> nts]
    ELSE [events |-> evs, notes |-> DeleteExaminerNote(nts, InternalId(id))]

\* a bulk tag mutation that also writes the tag of the selected notes
BulkUpdateTag_NotesToo(evs, nts, ids, tag) ==
    [events |-> SetEventColumn(evs, EventIdsOf(ids), "tag", tag),
     notes |-> [j \in 1..Len(nts) |->
                   IF nts[j].id \notin NoteIdsOf(ids) THEN nts[j]
                   ELSE [nts[j] EXCEPT !.tag = tag]]]

\* bulk mutation over a selection of presented identifiers: the tag of the
\* events only; color and bookmark of both kinds, one statement per table
BulkUpdateTag(evs, nts, ids, tag) ==
    [events |-> SetEventColumn(evs, EventIdsOf(ids), "tag", tag), notes |-> nts]

BulkUpdateColor(evs, nts, ids, color) ==
    [events |-> SetEventColumn(evs, EventIdsOf(ids), "color", color),
     notes |-> SetNoteColors(nts, NoteIdsOf(ids), color)]

BulkSetBookmark(evs, nts, ids, val) ==
    [events |-> SetEventColumn(evs, EventIdsOf(ids), "bookmark", val),
     notes |-> SetNoteBookmarks(nts, NoteIdsOf(ids), val)]

-----------------------------------------------------------------------------
(* package database: indexes                                               *)

DefaultIndexFields == <<"host", "user", "source", "sourcetype", "type", "datetime", "color">>

\* the index names <field>_idx of a list of fields
IndexNames(fields) == {fields[i] \o "_idx" : i \in 1..Len(fields)}

\* RebuildIndexes(indexFields): in one transaction, DROP INDEX IF EXISTS
\* f_idx for every f of model.Fields, then CREATE INDEX IF NOT EXISTS f_idx
\* ON log2timeline (f) for every f of indexFields; a statement that fails
\* (an injected fault, or a CREATE on a column the table does not have) ends
\* the call and the deferred Rollback undoes the statements before it
RebuildIndexes(idx, indexFields, fault) ==
    IF fault = "begin" THEN [indexes |-> idx, err |-> "begin"]
    ELSE IF fault = "drop"
    THEN [indexes |-> idx, err |-> "dropping index " \o Fields[1] \o "_idx"]
    ELSE IF \E i \in 1..Len(indexFields) : indexFields[i] \notin ColumnSet
    THEN [indexes |-> idx,
          err |-> "creating index "
                      \o indexFields[CHOOSE i \in 1..Len(indexFields) :
                                        /\ indexFields[i] \notin ColumnSet
                                        /\ \A j \in 1..(i - 1) : indexFields[j] \in ColumnSet]
                      \o "_idx"]
    ELSE IF fault = "create" /\ Len(indexFields) > 0
    THEN [indexes |-> idx, err |-> "creating index " \o indexFields[1] \o "_idx"]
    ELSE IF fault = "commit" THEN [indexes |-> idx, err |-> "commit"]
    ELSE [indexes |-> (idx \ IndexNames(Fields)) \cup IndexNames(indexFields),
          err |-> "nil"]

-----------------------------------------------------------------------------
(* package database: running a statement of Query.Build                    *)

\* the struct fields scanFieldsOrderEvents and pgScanFieldsOrderEvents pass
\* to rows.Scan, in order
FieldsOrderDests ==
    << "ID", "Datetime", "Timezone", "MACB", "Source", "SourceType",
       "Type", "User", "Host", "Desc", "Filename",
       "Inode", "Notes", "Format", "Extra", "ReportNotes",
       "InReport", "Tag", "Color", "Offset", "StoreNumber",
       "StoreIndex", "VSSStoreNumber", "URL", "RecordNumber",
       "EventID", "EventType", "SourceName", "UserSID", "ComputerName",
       "Bookmark" >>

\* where " FROM " first begins in a statement (past its end when nowhere)
FromAt(s) ==
    LET at == {i \in 1..Len(s) : i + 5 <= Len(s) /\ SubSeq(s, i, i + 5) = " FROM "}
    IN  IF at = {} THEN Len(s) + 1 ELSE CHOOSE i \in at : \A j \in at : i <= j

\* strings.Split(s, ",") of a long text, by the positions of its commas
SplitList(s) ==
    LET cuts == {i \in 1..Len(s) : SubSeq(s, i, i) = ","}
        n == Cardinality(cuts)
        cut(k) == CHOOSE p \in cuts : Cardinality({c \in cuts : c < p}) = k - 1
    IN  [k \in 1..(n + 1) |->
            SubSeq(s, IF k = 1 THEN 1 ELSE cut(k - 1) + 1,
                      IF k = n + 1 THEN Len(s) ELSE cut(k) - 1)]

\* a column name without the double quotes PostgreSQL's quoting put on it
Unquote(name) ==
    IF Len(name) >= 2 /\ SubSeq(name, 1, 1) = "\"" /\ SubSeq(name, Len(name), Len(name)) = "\""
    THEN SubSeq(name, 2, Len(name) - 1) ELSE name

\* the result columns of "SELECT c1, c2, ... FROM log2timeline ...", as the
\* database names them
ResultColumns(sqlStr) ==
    LET list == SplitList(SubSeq(sqlStr, Len("SELECT ") + 1, FromAt(sqlStr) - 1))
    IN  [i \in 1..Len(list) |-> Unquote(TrimSpace(list[i]))]

\* the value of a result column of a row
ColumnValue(be, row, column) ==
    IF column = IDColumn(be) THEN row.id ELSE row.cols[column]

\* ExecuteQuery(sqlStr, nil) for a statement without WHERE, ORDER BY and
\* LIMIT: rows.Scan fails on the first row unless it is given as many
\* destinations as the statement has columns, and stores the i-th column
\* into the i-th destination
ExecuteQuery(be, rows, sqlStr) ==
    LET columns == ResultColumns(sqlStr)
        decoded == [i \in 1..Len(rows) |->
                       [f \in {FieldsOrderDests[k] : k \in 1..Len(FieldsOrderDests)} |->
                           ColumnValue(be, rows[i],
                               columns[CHOOSE k \in 1..Len(FieldsOrderDests) :
                                           FieldsOrderDests[k] = f])]]
    IN  IF Len(rows) = 0 THEN [columns |-> columns, events |-> <<>>, err |-> "nil"]
        ELSE IF Len(columns) # Len(FieldsOrderDests)
        THEN [columns |-> columns, events |-> <<>>,
              err |-> "scanning event row: sql: expected " \o ToString(Len(columns))
                          \o " destination arguments in Scan, not "
                          \o ToString(Len(FieldsOrderDests))]
        ELSE IF be # "pgx" /\ \E i \in 1..Len(rows) : rows[i].nulls # {}
        THEN [columns |-> columns, events |-> <<>>, err |-> "scanning event row"]
        ELSE [columns |-> columns, events |-> decoded, err |-> "nil"]

-----------------------------------------------------------------------------
(* package query: RawQuery                                                 *)
(*                                                                         *)
(* A RawQuery is a Query with a rawWhere string next to it; the methods of *)
(* the Query other than Build are the RawQuery's too.                      *)

\* NewRaw(pageSize, whereClause)
NewRaw(pageSize, whereClause) == [Query |-> New(pageSize), rawWhere |-> whereClause]

\* a RawQuery.Build that renders the predicates of the Query it embeds
RawBuild_FromPredicates(query, where) == Build(query)

\* RawQuery.Build
RawBuild(query, where) ==
    LET sql0 == "SELECT " \o SelectFields(query.dialect) \o " FROM log2timeline"
        sql1 == IF where # "" THEN sql0 \o " WHERE " \o where ELSE sql0
    IN  [sql |-> sql1 \o OrderClause(query) \o LimitClause(query), args |-> <<>>]

-----------------------------------------------------------------------------
(* package main: App.ImportCSV                                             *)

\* the tables of a database CreateStore("sqlite", dbPath, nil) has just made
NewDatabase(dbPath) ==
    [backend |-> "sqlite", dbfile |-> dbPath, events |-> <<>>, serial |-> 0,
     meta |-> EmptyMetadata, tags |-> EmptyBag, saved |-> <<>>,
     indexes |-> IndexNames(DefaultIndexFields)]

\* importIntoExisting := a.driver == "postgres" && a.store != nil
ImportIntoExisting(a) == a.driver = "postgres" /\ a.store # NoStore

\* App.ImportCSV.  db holds the tables of the open database, file the events
\* of the timeline file, dbPath the answer to the save dialog, and stop the
\* step that ends the call early: "cancel" (no file chosen), "invalid" (the
\* file is of no known format), "cancelSave" (no database path chosen),
\* "create" (CreateStore fails), "read" (ReadEvents fails), "insert"
\* (InsertEvents fails at its first row), "metadata" (UpdateMetadata fails)
\* or "none".  The result is the App, the tables of the database the call
\* leaves the session on, the error, and whether a database was created.
App_ImportCSV(a, db, file, dbPath, stop) ==
    LET existing == ImportIntoExisting(a)
        kept == [app |-> a, db |-> db, created |-> FALSE]
        \* the App and the store after the target store is determined
        a1 == IF existing THEN a ELSE [a EXCEPT !.store = NoStore]
        target == IF existing THEN db ELSE NewDatabase(dbPath)
        \* closeOnError: a store that was created is closed again; the App
        \* was left without a store when the new one was asked for
        failed(t, err) == [app |-> a1, db |-> t, created |-> ~existing, err |-> err]
        ins == InsertEvents(target.backend, target.events, target.serial, file,
                            IF stop = "insert" THEN 1 ELSE 0,
                            IF stop = "insert" THEN "exec" ELSE "none")
        inserted == [target EXCEPT !.events = ins.events, !.serial = ins.serial]
        md == UpdateMetadata(inserted.events, inserted.meta, inserted.tags,
                             IF stop = "metadata" THEN "exec" ELSE "none")
        done == [inserted EXCEPT !.meta = md.meta, !.tags = md.tags]
    IN  IF stop = "cancel" THEN kept @@ [err |-> "nil"]
        ELSE IF stop = "invalid" THEN kept @@ [err |-> "unrecognized file format"]
        ELSE IF ~existing /\ stop = "cancelSave" THEN kept @@ [err |-> "nil"]
        ELSE IF ~existing /\ stop = "create"
        THEN [app |-> a1, db |-> db, created |-> FALSE, err |-> "creating database"]
        ELSE IF stop = "read" THEN failed(target, "reading CSV")
        ELSE IF ins.err # "nil" THEN failed(inserted, "inserting events")
        ELSE IF md.err # "nil" THEN failed(inserted, "updating metadata")
        ELSE [app |-> IF existing THEN a
                      ELSE [store |-> [backend |-> "sqlite", path |-> dbPath],
                            driver |-> "sqlite"],
              db |-> done, created |-> ~existing, err |-> "nil"]

-----------------------------------------------------------------------------
(* The WHERE clause as the engines evaluate it                             *)
(*                                                                         *)
(* A condition is the engine's parse of a WHERE text with its arguments    *)
(* bound: [k |-> "cmp", column, op, arg], [k |-> "between", lo, hi],       *)
(* [k |-> "and" / "or", l, r] for a parenthesised pair, or [k |-> "none"]  *)
(* for no text.  Truth is three-valued: "T", "F" and "U" (SQL NULL).       *)

CondNone == [k |-> "none"]

Not3(v) == IF v = "T" THEN "F" ELSE IF v = "F" THEN "T" ELSE "U"

And3(a, b) ==
    IF a = "F" \/ b = "F" THEN "F" ELSE IF a = "T" /\ b = "T" THEN "T" ELSE "U"

Or3(a, b) ==
    IF a = "T" \/ b = "T" THEN "T" ELSE IF a = "F" /\ b = "F" THEN "F" ELSE "U"

UpperCase == "ABCDEFGHIJKLMNOPQRSTUVWXYZ"

LowerCase == "abcdefghijklmnopqrstuvwxyz"

\* a text with its ASCII capitals made small
RECURSIVE ToLower(_)
ToLower(s) ==
    IF Len(s) = 0 THEN ""
    ELSE LET c == SubSeq(s, 1, 1)
             at == {i \in 1..Len(UpperCase) : SubSeq(UpperCase, i, i) = c}
         IN  (IF at = {} THEN c ELSE LET i == CHOOSE i \in at : TRUE
                                     IN  SubSeq(LowerCase, i, i))
             \o ToLower(SubSeq(s, 2, Len(s)))

\* text LIKE pattern, for a pattern whose only wildcards are a leading and
\* a trailing %.  SQLite's LIKE ignores the case of ASCII letters,
\* PostgreSQL's LIKE does not.
LikeMatch(be, text, pattern) ==
    LET n == Len(pattern)
        open == n >= 1 /\ SubSeq(pattern, 1, 1) = "%"
        close == n >= 2 /\ SubSeq(pattern, n, n) = "%"
        inner == SubSeq(pattern, IF open THEN 2 ELSE 1, IF close THEN n - 1 ELSE n)
        t == IF be = "pgx" THEN text ELSE ToLower(text)
        p == IF be = "pgx" THEN inner ELSE ToLower(inner)
        starts == {i \in 1..(Len(t) + 1) :
                      i + Len(p) - 1 <= Len(t) /\ SubSeq(t, i, i + Len(p) - 1) = p}
    IN  IF open /\ close THEN starts # {}
        ELSE IF open THEN Len(t) - Len(p) + 1 \in starts
        ELSE IF close THEN 1 \in starts
        ELSE t = p

\* the column of log2timeline an unquoted name in a statement denotes: both
\* engines match such names without regard to case ("" when there is none)
ResolveColumn(name) ==
    IF name \in ColumnSet THEN name
    ELSE LET cs == {c \in ColumnSet : ToLower(c) = ToLower(name)}
         IN  IF cs = {} THEN "" ELSE CHOOSE c \in cs : TRUE

\* the text of a column of a row (a number in its decimal form)
ColText(row, column) ==
    IF InsertBinding[column] \in IntEventFields
    THEN ToString(row.cols[column]) ELSE row.cols[column]

\* column op arg on a row
Compare3(be, row, name, op, arg) ==
    LET column == ResolveColumn(name)
        v == ColText(row, column)
    IN  IF column \in row.nulls THEN "U"
        ELSE IF op = "=" THEN (IF v = arg THEN "T" ELSE "F")
        ELSE IF op = "!=" THEN (IF v # arg THEN "T" ELSE "F")
        ELSE IF op = "LIKE" THEN (IF LikeMatch(be, v, arg) THEN "T" ELSE "F")
        ELSE IF op = "NOT LIKE" THEN (IF LikeMatch(be, v, arg) THEN "F" ELSE "T")
        ELSE IF op = ">=" THEN (IF v = arg \/ StrLess(arg, v) THEN "T" ELSE "F")
        ELSE IF op = "<=" THEN (IF v = arg \/ StrLess(v, arg) THEN "T" ELSE "F")
        ELSE IF op = ">" THEN (IF StrLess(arg, v) THEN "T" ELSE "F")
        ELSE IF op = "<" THEN (IF StrLess(v, arg) THEN "T" ELSE "F")
        ELSE "U"

\* the columns a condition names
RECURSIVE CondColumns(_)
CondColumns(c) ==
    IF c.k = "cmp" THEN {c.column}
    ELSE IF c.k = "between" THEN {"datetime"}
    ELSE IF c.k \in {"and", "or"} THEN CondColumns(c.l) \cup CondColumns(c.r)
    ELSE {}

\* the truth of a condition on a row
RECURSIVE Eval3(_, _, _)
Eval3(be, c, row) ==
    IF c.k = "cmp" THEN Compare3(be, row, c.column, c.op, c.arg)
    ELSE IF c.k = "between"
    THEN And3(Compare3(be, row, "datetime", ">=", c.lo),
              Compare3(be, row, "datetime", "<=", c.hi))
    ELSE IF c.k = "and" THEN And3(Eval3(be, c.l, row), Eval3(be, c.r, row))
    ELSE IF c.k = "or" THEN Or3(Eval3(be, c.l, row), Eval3(be, c.r, row))
    ELSE "T"

\* the rows SELECT ... WHERE keeps, by position; a column the table does
\* not have fails the statement
SelectWhere(be, rows, c) ==
    IF \E name \in CondColumns(c) : ResolveColumn(name) = ""
    THEN [kept |-> {}, err |-> "no such column"]
    ELSE [kept |-> {i \in 1..Len(rows) : Eval3(be, c, rows[i]) = "T"}, err |-> "nil"]

\* the condition the engine reads from the text whereClauseWithDialect
\* renders for p, with the placeholders bound to args: the parentheses of
\* the text nest as the tree does, and placeholder i stands for args[i]
RECURSIVE TreeCond(_, _, _)
TreeCond(p, startIdx, args) ==
    IF p = Nil THEN [c |-> CondNone, next |-> startIdx]
    ELSE IF p.kind = predSimple
    THEN [c |-> [k |-> "cmp", column |-> p.field, op |-> p.op, arg |-> args[startIdx]],
          next |-> startIdx + 1]
    ELSE IF p.kind = predDate
    THEN [c |-> [k |-> "between", lo |-> args[startIdx], hi |-> args[startIdx + 1]],
          next |-> startIdx + 2]
    ELSE IF p.kind = predComposite
    THEN LET l == TreeCond(p.left, startIdx, args)
             r == TreeCond(p.right, l.next, args)
         IN  IF l.c = CondNone THEN r
             ELSE IF r.c = CondNone THEN [c |-> l.c, next |-> r.next]
             ELSE [c |-> [k |-> IF p.logic = OR THEN "or" ELSE "and",
                          l |-> l.c, r |-> r.c],
                   next |-> r.next]
    ELSE [c |-> CondNone, next |-> startIdx]

-----------------------------------------------------------------------------
(* package main: App.QueryEvents, App.ExportCSV                            *)

\* the one element of a singleton set
Only(S) == CHOOSE x \in S : TRUE

\* queryDialect
queryDialect(a) == IF a.driver = "postgres" THEN "pgx" ELSE DefaultDialect

\* the columns of the full-text search
searchFields ==
    << "desc", "filename", "source", "sourcetype", "type",
       "user", "host", "extra", "tag", "url", "source_name",
       "computer_name", "format", "notes" >>

FilterOperators == {"=", "!=", "LIKE", "NOT LIKE", ">=", "<="}

\* the predicates QueryEvents and ExportCSV add to the query, in order:
\* one per filter with a known operator, the search group, the bookmark
\* filter.  AddPredicate ignores the nil ones.
RequestPredicates(req) ==
    LET fs == [i \in 1..Len(req.filters) |->
                  IF req.filters[i].operator \in FilterOperators
                  THEN Simple(req.filters[i].field, req.filters[i].operator,
                              req.filters[i].value)
                  ELSE Nil]
        searchPreds == [i \in 1..Len(searchFields) |->
                           Simple(searchFields[i], Like, req.searchText)]
        search == IF req.searchText # "" THEN <<Combine(searchPreds, OR)>> ELSE <<>>
        bookmark == IF req.bookmarkOnly THEN <<Simple("bookmark", Equal, "1")>> ELSE <<>>
    IN  SelectSeq(fs \o search \o bookmark, LAMBDA p : p # Nil)

\* the Query both handlers build before OrderBy and SetPage
RequestQuery(a, req, pageSize) ==
    Only({ [New(pageSize) EXCEPT
               !.dialect = queryDialect(a),
               !.logic = IF req.logic = "OR" THEN OR ELSE AND,
               !.predicates = [i \in 1..Len(ps) |-> [addr |-> i, pred |-> ps[i]]]]
           : ps \in {RequestPredicates(req)} })

\* the rows the statement Build(query) selects from the table of store be,
\* and what ExecuteQuery makes of them: kept holds the positions of the
\* rows the WHERE keeps
RunBuilt(be, rows, query) ==
    Only({ Only({ Only({ [kept |-> sel.kept, sql |-> b.sql, args |-> b.args,
                           err |-> found.err, events |-> found.events]
                         : found \in {ExecuteQuery(be,
                               SelectSeq(rows, LAMBDA row : \E i \in sel.kept : rows[i] = row),
                               SubSeq(b.sql, 1, FromAt(b.sql) + Len(" FROM log2timeline") - 1))} })
                  : sel \in {SelectWhere(be, rows,
                                TreeCond(Combine(Pointees(query.predicates), query.logic),
                                         1, b.args).c)} })
           : b \in {Build(query)} })

\* App.QueryEvents.  matched holds the positions of the rows the WHERE of
\* the two statements keeps: BuildCount's statement counts them into
\* TotalCount and Build's statement hands them to the row decoder.
App_QueryEvents(a, be, rows, req) ==
    IF a.store = NoStore
    THEN [err |-> "no database open", matched |-> {}, totalCount |-> 0]
    ELSE LET pageSize == IF req.pageSize <= 0 THEN 1000 ELSE req.pageSize
             q0 == RequestQuery(a, req, pageSize)
             q1 == IF req.orderBy # ""
                   THEN [q0 EXCEPT !.orderBy = OrderBy(q0, req.orderBy).orderBy] ELSE q0
             q2 == [q1 EXCEPT !.page = SetPage(q1, IF req.page < 1 THEN 1 ELSE req.page)]
         IN  Only({ [err |-> IF r.err # "nil" THEN "querying events: " \o r.err ELSE "nil",
                     matched |-> r.kept, totalCount |-> Cardinality(r.kept)]
                    : r \in {RunBuilt(be, rows, q2)} })

\* App.ExportCSV: no file chosen, or the unpaged query ordered by datetime
App_ExportCSV(a, be, rows, req, savePath) ==
    IF a.store = NoStore
    THEN [err |-> "no database open", matched |-> {}]
    ELSE IF savePath = ""
    THEN [err |-> "nil", matched |-> {}]
    ELSE LET q0 == RequestQuery(a, req, 999999999)
             q1 == [q0 EXCEPT !.orderBy =
                       OrderBy(q0, IF req.orderBy = "" THEN "datetime" ELSE req.orderBy).orderBy]
             q2 == [q1 EXCEPT !.page = SetPage(q1, 1)]
         IN  Only({ [err |-> IF r.err # "nil" THEN "querying events: " \o r.err ELSE "nil",
                     matched |-> r.kept]
                    : r \in {RunBuilt(be, rows, q2)} })

-----------------------------------------------------------------------------
(* package main: App.GetTimelineHistogram                                  *)

\* a sequence of conditions joined left to right by one connective
RECURSIVE JoinCond(_, _)
JoinCond(cs, k) ==
    IF Len(cs) = 1 THEN cs[1]
    ELSE [k |-> k, l |-> JoinCond(SubSeq(cs, 1, Len(cs) - 1), k), r |-> cs[Len(cs)]]

\* the filters of a request that GetTimelineHistogram takes up
HistogramFilterItems(req) ==
    SelectSeq(req.filters, LAMBDA f : f.operator \in FilterOperators)

\* the WHERE clause App.GetTimelineHistogram builds: the text, the
\* arguments, and the condition the engine reads from the text with the
\* arguments bound.  Filter i binds placeholder i to the filter's value as
\* it is; the search group binds one placeholder per search column.
HistogramWhere(d, req) ==
    LET fs == HistogramFilterItems(req)
        n == Len(fs)
        junk == "datetime > '1970-01-01' AND datetime < '2100-01-01'"
        junkCond == [k |-> "and",
                     l |-> [k |-> "cmp", column |-> "datetime", op |-> ">", arg |-> "1970-01-01"],
                     r |-> [k |-> "cmp", column |-> "datetime", op |-> "<", arg |-> "2100-01-01"]]
        filterParts == [i \in 1..n |->
            [text |-> QuoteColumn(d, fs[i].field) \o " " \o fs[i].operator \o " "
                          \o Placeholder(d, i),
             cond |-> [k |-> "cmp", column |-> fs[i].field, op |-> fs[i].operator,
                       arg |-> fs[i].value]]]
        orParts == [j \in 1..Len(searchFields) |->
                       QuoteColumn(d, searchFields[j]) \o " LIKE " \o Placeholder(d, n + j)]
        orConds == [j \in 1..Len(searchFields) |->
                       [k |-> "cmp", column |-> searchFields[j], op |-> "LIKE",
                        arg |-> "%" \o req.searchText \o "%"]]
        searchPart == IF req.searchText # ""
                      THEN <<[text |-> "(" \o Join(orParts, " OR ") \o ")",
                              cond |-> JoinCond(orConds, "or")]>>
                      ELSE <<>>
        bookmarkPart == IF req.bookmarkOnly
                        THEN <<[text |-> "bookmark = 1",
                                cond |-> [k |-> "cmp", column |-> "bookmark", op |-> "=",
                                          arg |-> "1"]]>>
                        ELSE <<>>
        userParts == filterParts \o searchPart \o bookmarkPart
        logic == IF req.logic = "OR" THEN "OR" ELSE "AND"
    IN  [whereArgs |-> [i \in 1..n |-> fs[i].value]
                          \o (IF req.searchText # ""
                              THEN [j \in 1..Len(searchFields) |-> "%" \o req.searchText \o "%"]
                              ELSE <<>>),
         whereClause |->
             IF Len(userParts) = 0 THEN "WHERE " \o junk
             ELSE "WHERE " \o junk \o " AND ("
                      \o Join([i \in 1..Len(userParts) |-> userParts[i].text],
                              " " \o logic \o " ") \o ")",
         cond |->
             IF Len(userParts) = 0 THEN junkCond
             ELSE [k |-> "and", l |-> junkCond,
                   r |-> JoinCond([i \in 1..Len(userParts) |-> userParts[i].cond],
                                  IF logic = "OR" THEN "or" ELSE "and")]]

\* store.GetTimelineHistogram for a WHERE clause of which sel holds the rows
\* it keeps, or the error of a statement that names a column the table does
\* not have: the date range query, the bucket format, the grouped query
HistogramOfSelected(be, rows, sel) ==
    IF sel.err # "nil" THEN [buckets |-> <<>>, err |-> "getting date range"]
    ELSE Only({ IF range.err # "nil" THEN [buckets |-> <<>>, err |-> range.err]
                ELSE IF range.minDate = "" \/ range.maxDate = ""
                THEN [buckets |-> <<>>, err |-> "nil"]
                ELSE HistogramRows(be, rows, sel.kept,
                                   BucketFormat(range.minDate, range.maxDate))
                : range \in {DateRange_Query(be, rows, sel.kept)} })

\* the sum of the counts of a list of buckets
RECURSIVE TotalCount(_)
TotalCount(buckets) ==
    IF Len(buckets) = 0 THEN 0 ELSE Head(buckets).Count + TotalCount(Tail(buckets))

\* App.GetTimelineHistogram.  kept holds the positions of the rows the
\* WHERE clause keeps.
App_GetTimelineHistogram(a, be, rows, req) ==
    IF a.store = NoStore
    THEN [err |-> "no database open", buckets |-> <<>>, kept |-> {}, whereClause |-> ""]
    ELSE Only({ Only({ Only({ [err |-> h.err, buckets |-> h.buckets,
                                kept |-> sel.kept, whereClause |-> w.whereClause]
                              : h \in {HistogramOfSelected(be, rows, sel)} })
                       : sel \in {SelectWhere(be, rows, w.cond)} })
                : w \in {HistogramWhere(queryDialect(a), req)} })

-----------------------------------------------------------------------------
(* Rendering a predicate tree and executing it on a freshly seeded store   *)

\* how many simple, date-range and nil nodes a tree has at its leaves
RECURSIVE LeafCount(_)
LeafCount(p) ==
    IF p # Nil /\ p.kind = predComposite THEN LeafCount(p.left) + LeafCount(p.right)
    ELSE 1

\* CreateStore, InsertEvents(batch, nil), then a SELECT whose WHERE is the
\* rendering of tree p by the store's dialect: the rendering, the rows the
\* statement keeps (by their position in the batch) and the error
RoundTrip(be, batch, p) ==
    Only({ Only({ [where |-> w, kept |-> sel.kept, err |-> sel.err]
                  : sel \in {SelectWhere(be,
                                InsertEvents(be, <<>>, 0, batch, 0, "none").events,
                                TreeCond(p, 1, w.args).c)} })
           : w \in {whereClauseWithDialect(p, be, 1)} })

-----------------------------------------------------------------------------
(* package database: the progress callback of InsertEvents                 *)

\* "The onProgress callback is called every 10,000 events with the current
\* count."
ProgressEvery == 10000

\* a mistaken condition: the test made before the row is counted
ProgressDue_BeforeCount(onProgress, inserted) ==
    onProgress /\ (inserted - 1) % ProgressEvery = 0

\* if onProgress != nil && inserted%10000 == 0 { onProgress(inserted) }
\* onProgress is TRUE for a callback, FALSE for nil.
ProgressDue(onProgress, inserted) ==
    onProgress /\ inserted % ProgressEvery = 0

\* no InsertEvents call has been made
NoLoop ==
    [pc |-> "idle", n |-> 0, inserted |-> 0, calls |-> <<>>, onProgress |-> FALSE,
     failAt |-> 0, ret |-> 0, err |-> "nil"]

\* no ToggleBookmark call is in flight
NoToggles == <<>>

\* tx, err := db.conn.Begin(); stmt, err := tx.Prepare(...); inserted := 0
\* The batch is represented by its length n.  failAt names the statement that
\* fails: 0 none, -1 Begin, -2 Prepare, k in 1..n the Exec of row k, n + 1 the
\* Commit.
InsertEvents_Begin(n, onProgress, failAt) ==
    LET l == [pc |-> "rows", n |-> n, inserted |-> 0, calls |-> <<>>,
              onProgress |-> onProgress, failAt |-> failAt, ret |-> 0, err |-> "nil"]
    IN  IF failAt = -1
        THEN [l EXCEPT !.pc = "failed", !.err = "beginning transaction"]
        ELSE IF failAt = -2
        THEN [l EXCEPT !.pc = "failed", !.err = "preparing insert statement"]
        ELSE l

\* one turn of "for _, e := range events": the Exec of the next row, the count
\* and the callback
InsertEvents_Row(l) ==
    IF l.failAt = l.inserted + 1
    THEN [l EXCEPT !.pc = "failed", !.ret = l.inserted,
                   !.err = "inserting event " \o ToString(l.inserted + 1)]
    ELSE LET inserted == l.inserted + 1
         IN  [l EXCEPT !.inserted = inserted,
                       !.calls = IF ProgressDue(l.onProgress, inserted)
                                 THEN Append(l.calls, inserted)
                                 ELSE l.calls]

\* if err := tx.Commit(); err != nil {...}; return inserted, nil
InsertEvents_Commit(l) ==
    IF l.failAt = l.n + 1
    THEN [l EXCEPT !.pc = "failed", !.ret = l.inserted,
                   !.err = "committing transaction"]
    ELSE [l EXCEPT !.pc = "done", !.ret = l.inserted]

-----------------------------------------------------------------------------
(* package database: ToggleBookmark calls that overlap                     *)

\* the bookmark column of the row with that id: -1 when there is no such row
\* or the column is NULL
StoredFlag(rows, rowid) ==
    LET sel == ToggleSelect(rows, rowid)
    IN  IF sel.err = "nil" THEN sel.val ELSE -1

\* a call of ToggleBookmark(rowid) that has not run a statement yet
ToggleEntered(rowid) ==
    [pc |-> "update", rowid |-> rowid, saw |-> -1, wrote |-> -1, val |-> 0,
     err |-> "nil"]

\* _, err := db.conn.Exec("UPDATE ...", rowid); if err != nil { return 0, err }
\* The statement is one step of the engine.  saw and wrote keep the flag of
\* the row just before and just after it.
ToggleBookmark_Exec(call, rows, execFails) ==
    IF execFails
    THEN [events |-> rows, call |-> [call EXCEPT !.pc = "done", !.err = "exec"]]
    ELSE LET after == ToggleUpdate(rows, call.rowid)
         IN  [events |-> after,
              call |-> [call EXCEPT !.pc = "select",
                                    !.saw = StoredFlag(rows, call.rowid),
                                    !.wrote = StoredFlag(after, call.rowid)]]

\* err = db.conn.QueryRow("SELECT bookmark ...", rowid).Scan(&val)
\* return val, err
ToggleBookmark_QueryRow(call, rows) ==
    LET sel == ToggleSelect(rows, call.rowid)
    IN  [call EXCEPT !.pc = "done", !.val = sel.val, !.err = sel.err]

-----------------------------------------------------------------------------
(* package main: the session of the App across databases                   *)

\* the tables of the database at path on the backend be, when the session
\* leaves the database db: db itself if it is that database, otherwise a
\* database with the schema and no rows
DatabaseAt(be, path, db) ==
    IF db.backend = be /\ db.dbfile = path THEN db
    ELSE [NewDatabase(path) EXCEPT !.backend = be]

\* App.OpenDatabase: the file dialog ("" is a cancel), then loadDatabase
App_OpenDatabase(a, path, openFails) ==
    IF path = "" THEN [app |-> a, err |-> "nil"]
    ELSE LET r == App_Open(a, "sqlite", path, openFails)
         IN  [app |-> r.app, err |-> IF openFails THEN "opening database" ELSE "nil"]

\* a ConnectPostgres that keeps the driver of the session it replaces
App_ConnectPostgres_KeepsDriver(a, connStr, openFails) ==
    IF openFails
    THEN [app |-> [a EXCEPT !.store = NoStore], err |-> "connecting to PostgreSQL"]
    ELSE [app |-> [a EXCEPT !.store = [backend |-> "pgx", path |-> connStr]],
          err |-> "nil"]

\* App.ConnectPostgres: close the open store, OpenStore("postgres", connStr)
App_ConnectPostgres(a, connStr, openFails) ==
    IF openFails
    THEN [app |-> [a EXCEPT !.store = NoStore], err |-> "connecting to PostgreSQL"]
    ELSE [app |-> [store |-> [backend |-> "pgx", path |-> connStr],
                   driver |-> "postgres"],
          err |-> "nil"]

\* App.CreatePostgresDatabase: close the open store,
\* CreateStore("postgres", connStr, nil)
App_CreatePostgresDatabase(a, connStr, createFails) ==
    IF createFails
    THEN [app |-> [a EXCEPT !.store = NoStore], err |-> "creating PostgreSQL schema"]
    ELSE [app |-> [store |-> [backend |-> "pgx", path |-> connStr],
                   driver |-> "postgres"],
          err |-> "nil"]

\* App.PushToPostgres.  stop is the step that fails: "create" (CreateStore),
\* "read" (ExecuteQuery), "insert" (InsertEvents), "metadata"
\* (UpdateMetadata) or "none".  The PostgreSQL store is closed when the call
\* returns and the App keeps the store it had.
App_PushToPostgres(a, rows, stop) ==
    IF a.store = NoStore \/ a.driver # "sqlite"
    THEN [app |-> a, pushed |-> 0, err |-> "no SQLite database is open"]
    ELSE IF Len(rows) = 0
    THEN [app |-> a, pushed |-> 0, err |-> "SQLite database has no events to push"]
    ELSE IF stop = "create"
    THEN [app |-> a, pushed |-> 0, err |-> "creating PostgreSQL schema"]
    ELSE IF stop = "read"
    THEN [app |-> a, pushed |-> 0, err |-> "reading events from SQLite"]
    ELSE IF stop = "insert"
    THEN [app |-> a, pushed |-> 0, err |-> "inserting events into PostgreSQL"]
    ELSE IF stop = "metadata"
    THEN [app |-> a, pushed |-> Len(rows), err |-> "updating PostgreSQL metadata"]
    ELSE [app |-> a, pushed |-> Len(rows), err |-> "nil"]

\* App.ToggleBookmark
App_ToggleBookmark(a, rows, rowid, execFails) ==
    IF a.store = NoStore
    THEN [events |-> rows, val |-> 0, err |-> "no database open"]
    ELSE ToggleBookmark(rows, rowid, execFails)

-----------------------------------------------------------------------------
(* Inputs                                                                  *)

FieldSet == {Fields[i] : i \in 1..Len(Fields)}

\* field names that are not columns of model.Fields
InvalidFields ==
    {"", "rowid", "id", "bookmark", "Source", "source ",
     "DROP TABLE log2timeline;--", "source = '' OR 1=1 --"}

FieldInputs == FieldSet \cup InvalidFields

\* operator strings outside the six constants
InvalidOperators == {"", "<", ">", "<>", "like", "IN", "= '' OR 1=1 --"}

OperatorInputs == validOperators \cup InvalidOperators

ValueInputs == {"FILE", "100%", "x' OR '1'='1"}

\* the smaller input sets of the slices and predicate lists
SliceFields == {"source", "user", "hostname"}
SliceOperators == {Equal, Like, "<"}
SliceValues == {"FILE"}
DateInputs == {<<"2020-01-01 00:00:00", "2020-12-31 23:59:59">>}
PageSizeInputs == {0, 1000}
OrderInputs == {"", "desc", "rowid", "id"}
\* the predicates handed to AddPredicate: Simple's result (nil for the unknown
\* field) and DateRange's
QueryPredInputs ==
    {Simple(f, Like, "FILE") : f \in {"user", "hostname"}}
        \cup {DateRange(dr[1], dr[2]) : dr \in DateInputs}


\* events in the style of the tests' sampleEvent: a null byte in User, tag
\* strings with several, repeated, padded and empty tokens, and the datetime
\* values the PostgreSQL store replaces with NULL
Event1 ==
    [ZeroEvent EXCEPT !["Timezone"] = "UTC", !["MACB"] = "MACB", !["Source"] = "FILE",
                      !["SourceType"] = "OS:NTFS:MFT", !["Type"] = "Last Written",
                      !["User"] = "ad" \o NUL \o "min", !["Host"] = "WORKSTATION1",
                      !["Desc"] = "test file entry", !["Filename"] = "/Users/admin/test.txt",
                      !["Inode"] = "12345", !["Format"] = "mft",
                      !["Datetime"] = "2025-01-15 10:30:00",
                      !["Tag"] = "malware, suspicious",
                      !["StoreNumber"] = -1, !["StoreIndex"] = -1,
                      !["VSSStoreNumber"] = -1, !["RecordNumber"] = "1001",
                      !["UserSID"] = "S-1-5-21-123456", !["ComputerName"] = "WS1"]

Event2 ==
    [ZeroEvent EXCEPT !["Source"] = "REG", !["User"] = "admin",
                      !["Datetime"] = "Not a time",
                      !["Tag"] = " suspicious ,,lateral movement", !["Offset"] = 7]

Event3 ==
    [ZeroEvent EXCEPT !["Source"] = "FILE", !["Datetime"] = "0000-00-00 00:00:00",
                      !["Tag"] = "malware"]

EventInputs == {Event1, Event2, Event3}

\* the slices passed to InsertEvents
BatchInputs == UNION {[1..n -> EventInputs] : n \in 0..MaxBatch}

\* the call of InsertEvents that fails: none, conn.Begin, tx.Prepare, the
\* stmt.Exec of one row, or tx.Commit
InsertFaults == {"none", "begin", "prepare", "exec", "commit"}

MetadataFaults == {"none", "begin", "exec", "commit"}

\* the field maps passed to UpdateEvent
UpdateInputs ==
    { <<>>,
      [color |-> "RED"],
      [color |-> "RED", datetime |-> "2025-06-15 12:00:00"],
      [color |-> "RED", bookmark |-> "1"],
      ("DROP TABLE log2timeline;--" :> "x") }

DistinctInputs == {"source", "user", "bookmark", "source; DROP TABLE log2timeline"}


\* events spread over one day, one month, one year and two years, and one
\* without a datetime
HistogramEvent(source, datetime) ==
    [ZeroEvent EXCEPT !["Source"] = source, !["Datetime"] = datetime]

HistogramEvents ==
    { HistogramEvent("FILE", "2025-01-15 10:30:00"),
      HistogramEvent("REG", "2025-01-15 23:59:59"),
      HistogramEvent("FILE", "2025-01-20 00:00:00"),
      HistogramEvent("REG", "2025-03-01 08:00:00"),
      HistogramEvent("FILE", "2026-01-01 00:00:00"),
      HistogramEvent("REG", "") }

\* the WHERE clauses and arguments passed to GetTimelineHistogram
HistogramFilters ==
    { [whereClause |-> "", whereArgs |-> <<>>],
      [whereClause |-> "WHERE source = ?", whereArgs |-> <<"FILE">>],
      [whereClause |-> "WHERE source = ?", whereArgs |-> <<"LNK">>] }


\* events with the bookmark flag clear, set, and holding another number
BookmarkEvents ==
    { [ZeroEvent EXCEPT !["Source"] = "FILE", !["Color"] = "RED"],
      [ZeroEvent EXCEPT !["Source"] = "REG", !["Bookmark"] = 1],
      [ZeroEvent EXCEPT !["Source"] = "LNK", !["Bookmark"] = 5] }

\* names and serialized filters of saved queries
QueryNames == {"Find malware", "Temp"}

QueryTexts == {"source = 'LOG'", "source = 'REG'"}

\* events, notes and selections for the examiner-note overlay
NoteEvents == { [ZeroEvent EXCEPT !["Source"] = "FILE", !["Tag"] = "malware"] }

NoteInputs ==
    { [datetime |-> "2025-01-15 10:30:00", description |-> "Imaged the disk",
       tag |-> "examiner_entry"] }

PresentedIds == (0 - MaxRows)..MaxRows

\* selections of one event identifier and one identifier that is not one
Selections == UNION {{{a, 0 - a}, {a, 0}} : a \in 1..(MaxRows - 1)}

\* lists of index fields, and the faults of RebuildIndexes
IndexFieldInputs ==
    { <<>>, <<"source", "datetime", "tag">>, <<"bookmark">>, <<"host", "bookmark">>,
      <<"source", "source">>, <<"MACB">>, <<"nonexistent">> }

IndexFaults == {"none", "begin", "drop", "create", "commit"}

\* WHERE fragments a user types
RawWhereInputs ==
    {"", "source = 'FILE' AND host = 'WS1'", "host = 'WS2'", "user = ? OR 1=1 --"}

\* the events of the timeline files imported, the database paths chosen in
\* the save dialog, and the steps an import can stop at
ImportFiles == {<<Event1>>, <<Event3>>}

ImportPaths == {"import.db", "second.db"}

ImportStops ==
    {"none", "cancel", "invalid", "cancelSave", "create", "read", "insert", "metadata"}

\* events to query: a bookmarked FILE event that mentions "evil", a FILE
\* event that does not, and a later REG event that mentions it in its URL
RequestEvent(source, desc, url, datetime, bookmark) ==
    [ZeroEvent EXCEPT !["Source"] = source, !["Desc"] = desc, !["URL"] = url,
                      !["Datetime"] = datetime, !["Bookmark"] = bookmark]

RequestEvents ==
    { RequestEvent("FILE", "evil.exe run", "", "2025-01-15 10:30:00", 1),
      RequestEvent("FILE", "notepad", "", "2025-01-15 10:30:00", 0),
      RequestEvent("REG", "", "http://evil", "2025-03-01 08:00:00", 0) }

\* a request of the grid: filters, logic, search text, bookmark-only
Request(filters, logic, searchText, bookmarkOnly) ==
    [filters |-> filters, logic |-> logic, searchText |-> searchText,
     bookmarkOnly |-> bookmarkOnly, orderBy |-> "", page |-> 1, pageSize |-> 0]

FilterOn(field, operator, value) ==
    <<[field |-> field, operator |-> operator, value |-> value]>>

\* the requests: no condition, an equality with and without the search
\* text and the bookmark filter under both logics, a LIKE, a filter on a
\* field the table does not have, the lower end of a date range, and the
\* search text alone
QueryRequests ==
    { Request(<<>>, "AND", "", FALSE),
      Request(FilterOn("source", "=", "FILE"), "AND", "", FALSE),
      Request(FilterOn("source", "=", "FILE"), "AND", "evil", FALSE),
      Request(FilterOn("source", "=", "FILE"), "OR", "evil", FALSE),
      Request(FilterOn("source", "=", "FILE"), "AND", "", TRUE),
      Request(FilterOn("source", "=", "REG"), "OR", "", TRUE),
      Request(FilterOn("source", "LIKE", "FIL"), "AND", "", FALSE),
      Request(FilterOn("nonexistent", "=", "x"), "AND", "", FALSE),
      Request(FilterOn("datetime", ">=", "2025-02-01"), "AND", "", FALSE),
      Request(FilterOn("datetime", ">=", "2025-02-01"), "OR", "evil", FALSE),
      Request(<<>>, "AND", "evil", FALSE) }

\* the leaves of the predicate trees: an equality, a LIKE on a column whose
\* name PostgreSQL reserves, a date range, and the nil predicate Simple
\* returns for an unknown field
TreeLeaves ==
    { Simple("source", Equal, "FILE"), Simple("desc", Like, "evil"),
      DateRange("2025-01-01 00:00:00", "2025-01-31 23:59:59"),
      Simple("hostname", Equal, "FILE") }

\* the events both stores are seeded with
SeedEvents ==
    << RequestEvent("FILE", "evil.exe run", "", "2025-01-15 10:30:00", 0),
       RequestEvent("REG", "Evil key", "", "2025-03-01 08:00:00", 0),
       RequestEvent("FILE", "notepad", "", "2025-01-20 00:00:00", 0) >>

\* the number of progress intervals the longest batch spans
MaxTicks == 2

\* batch lengths: empty, just short of an interval, whole intervals, and one
\* row more than the last whole interval
BatchSizes ==
    {0, ProgressEvery - 1} \cup {k * ProgressEvery : k \in 1..MaxTicks}
        \cup {MaxTicks * ProgressEvery + 1}

\* the statements that fail in a batch of n rows
BatchFaults(n) ==
    {0, -1, -2, n + 1} \cup ({1, ProgressEvery, ProgressEvery + 1} \cap 1..n)

\* the number of ToggleBookmark calls that overlap
MaxCallers == 3

\* the databases of a session: SQLite files and PostgreSQL connections
SessionPaths == {"", "case.db", "import.db"}

SessionConns == {"postgres://localhost/case"}

PushStops == {"none", "create", "read", "insert", "metadata"}

NoCall == [op |-> "none"]

-----------------------------------------------------------------------------
(* Actions: the predicate constructors and Combine                         *)

\* Simple(field, op, value), and the rendering of what it returned
CallSimple ==
    /\ simpleRet.op = "args"
    /\ LET ret == Simple(simpleRet.field, simpleRet.operator, simpleRet.value)
       IN  simpleRet' = [simpleRet EXCEPT
                            !.op = "Simple",
                            !.ret = ret,
                            !.where = whereClauseWithDialect(
                                          ret, simpleRet.dialect, simpleRet.startIdx)]
    /\ UNCHANGED <<preds, combineRet, queryVars, storeVars>>

\* the caller appends the result of Simple (nil included) to its slice
AppendSimple ==
    /\ Len(preds) < MaxPreds
    /\ \E field \in SliceFields, op \in SliceOperators, value \in SliceValues :
        preds' = Append(preds, Simple(field, op, value))
    /\ combineRet' = NoCall
    /\ UNCHANGED <<simpleRet, queryVars, storeVars>>

\* the caller appends the result of DateRange to its slice
AppendDateRange ==
    /\ Len(preds) < MaxPreds
    /\ \E dr \in DateInputs : preds' = Append(preds, DateRange(dr[1], dr[2]))
    /\ combineRet' = NoCall
    /\ UNCHANGED <<simpleRet, queryVars, storeVars>>

\* the caller starts a new slice
ClearSlice ==
    /\ preds # <<>>
    /\ preds' = <<>>
    /\ combineRet' = NoCall
    /\ UNCHANGED <<simpleRet, queryVars, storeVars>>

\* Combine(preds, logic), and the rendering of what it returned
CallCombine ==
    /\ \E logic \in {AND, OR}, d \in Dialects :
        LET ret == Combine(preds, logic)
        IN  combineRet' = [op |-> "Combine", ps |-> preds, logic |-> logic,
                           dialect |-> d, ret |-> ret,
                           where |-> whereClauseWithDialect(ret, d, 1)]
    /\ UNCHANGED <<preds, simpleRet, queryVars, storeVars>>

-----------------------------------------------------------------------------
(* Actions: the Query                                                      *)

\* the address of a newly allocated Predicate: one no pointer of the list holds
FreshAddr(ptrs) ==
    CHOOSE a \in 1..(Len(ptrs) + 1) :
        /\ \A i \in 1..Len(ptrs) : ptrs[i].addr # a
        /\ \A b \in 1..(a - 1) : \E i \in 1..Len(ptrs) : ptrs[i].addr = b

QNew ==
    /\ \E pageSize \in PageSizeInputs :
        /\ q' = New(pageSize)
        /\ qret' = [op |-> "New", pageSize |-> pageSize]
    /\ UNCHANGED <<predVars, storeVars, rawWhere>>

QSetDialect ==
    /\ \E d \in Dialects : q' = [q EXCEPT !.dialect = d]
    /\ qret' = [op |-> "SetDialect"]
    /\ UNCHANGED <<predVars, storeVars, rawWhere>>

QSetLogic ==
    /\ \E logic \in {AND, OR} : q' = [q EXCEPT !.logic = logic]
    /\ qret' = [op |-> "SetLogic"]
    /\ UNCHANGED <<predVars, storeVars, rawWhere>>

\* AddPredicate(p): p is nil, a new predicate, or a pointer already in the list
QAddPredicate ==
    /\ Len(q.predicates) < MaxQueryPreds
    /\ \E p \in QueryPredInputs,
          old \in 0..Len(q.predicates) :
        LET ptr == IF old > 0 THEN q.predicates[old]
                   ELSE [addr |-> FreshAddr(q.predicates), pred |-> p]
        IN  q' = [q EXCEPT !.predicates =
                     IF old = 0 /\ p = Nil THEN @ ELSE Append(@, ptr)]
    /\ qret' = [op |-> "AddPredicate"]
    /\ UNCHANGED <<predVars, storeVars, rawWhere>>

\* RemovePredicate(p): p is identified by its address
QRemovePredicate ==
    /\ \E addr \in 1..(MaxQueryPreds + 1) :
        q' = [q EXCEPT !.predicates = RemoveFirst(@, addr)]
    /\ qret' = [op |-> "RemovePredicate"]
    /\ UNCHANGED <<predVars, storeVars, rawWhere>>

QClearPredicates ==
    /\ q' = [q EXCEPT !.predicates = <<>>]
    /\ qret' = [op |-> "ClearPredicates"]
    /\ UNCHANGED <<predVars, storeVars, rawWhere>>

QOrderBy ==
    /\ \E field \in OrderInputs :
        LET r == OrderBy(q, field)
        IN  /\ q' = [q EXCEPT !.orderBy = r.orderBy]
            /\ qret' = [op |-> "OrderBy", field |-> field, err |-> r.err,
                        before |-> q.orderBy]
    /\ UNCHANGED <<predVars, storeVars, rawWhere>>

QSetPage ==
    /\ \E page \in -1..MaxPage :
        /\ q' = [q EXCEPT !.page = SetPage(q, page)]
        /\ qret' = [op |-> "SetPage", page |-> page, before |-> q.page]
    /\ UNCHANGED <<predVars, storeVars, rawWhere>>

QPageNumber ==
    /\ qret' = [op |-> "PageNumber", page |-> q.page]
    /\ UNCHANGED <<q, predVars, storeVars, rawWhere>>

QBuild ==
    /\ LET r == Build(q)
       IN  qret' = [op |-> "Build", sql |-> r.sql, args |-> r.args]
    /\ UNCHANGED <<q, predVars, storeVars, rawWhere>>

QBuildCount ==
    /\ LET r == BuildCount(q)
       IN  qret' = [op |-> "BuildCount", sql |-> r.sql, args |-> r.args]
    /\ UNCHANGED <<q, predVars, storeVars, rawWhere>>

-----------------------------------------------------------------------------
(* Actions: the Store                                                      *)

\* store.InsertEvents(batch, nil), the batch and the injected fault drawn
\* from the given sets, on a table that may grow to limit rows
InsertEventsFrom(batches, faults, limit) ==
    \E batch \in batches, fault \in faults :
        \E failAt \in IF fault = "exec" THEN 1..Len(batch) ELSE {0} :
            /\ Len(events) + Len(batch) <= limit
            /\ backend = "pgx" => serial + Len(batch) <= limit + 1
            /\ \E r \in {InsertEvents(backend, events, serial, batch, failAt, fault)} :
                   /\ events' = r.events
                   /\ serial' = r.serial
                   /\ sret' = [op |-> "InsertEvents", batch |-> batch, failAt |-> failAt,
                               fault |-> fault, count |-> r.count, err |-> r.err,
                               before |-> events]
            /\ UNCHANGED <<backend, meta, tags>>
            /\ UNCHANGED <<predVars, queryVars, otherVars>>

CallInsertEvents == InsertEventsFrom(BatchInputs, InsertFaults, MaxRows)

\* store.QueryEvents("", nil, "", 0, 0)
CallQueryEvents ==
    \E r \in QueryEvents(backend, events) :
        /\ sret' = [op |-> "QueryEvents", events |-> r.events, err |-> r.err]
        /\ UNCHANGED <<backend, events, serial, meta, tags>>
        /\ UNCHANGED <<predVars, queryVars, otherVars>>

\* InsertEvents of one event, succeeding: how the tables that UpdateEvent
\* and UpdateMetadata work on are filled
LoadEvent(inputs, limit) ==
    InsertEventsFrom({<<e>> : e \in inputs}, {"none"}, limit)

LoadUpdateEvent == LoadEvent(EventInputs, MaxRows)

\* store.UpdateEvent(rowid, fields)
CallUpdateEvent ==
    \E rowid \in 1..(MaxRows + 1), fields \in UpdateInputs, execFails \in BOOLEAN :
        /\ execFails => DOMAIN fields # {}
        /\ execFails => \A k \in DOMAIN fields : database_isValidField(k)
        /\ \E r \in {UpdateEvent(backend, events, rowid, fields, execFails)} :
               /\ events' = r.events
               /\ sret' = [op |-> "UpdateEvent", rowid |-> rowid, fields |-> fields,
                           execs |-> r.execs, err |-> r.err, before |-> events]
        /\ UNCHANGED <<backend, serial, meta, tags>>
        /\ UNCHANGED <<predVars, queryVars, otherVars>>

\* store.GetDistinctValues(fieldName)
CallGetDistinctValues ==
    \E fieldName \in DistinctInputs :
        /\ \E r \in {GetDistinctValues(backend, events, fieldName)} :
               sret' = [op |-> "GetDistinctValues", fieldName |-> fieldName,
                        result |-> r.result, execs |-> r.execs, err |-> r.err]
        /\ UNCHANGED <<backend, events, serial, meta, tags>>
        /\ UNCHANGED <<predVars, queryVars, otherVars>>

LoadMetadataEvent == LoadEvent(EventInputs, MaxRows + 1)

\* store.UpdateMetadata()
CallUpdateMetadata ==
    \E fault \in MetadataFaults :
        /\ \E r \in {UpdateMetadata(events, meta, tags, fault)} :
               /\ meta' = r.meta
               /\ tags' = r.tags
               /\ sret' = [op |-> "UpdateMetadata", fault |-> fault, err |-> r.err]
        /\ UNCHANGED <<backend, events, serial>>
        /\ UNCHANGED <<predVars, queryVars, otherVars>>

LoadHistogramEvent == LoadEvent(HistogramEvents, MaxRows)

\* store.GetTimelineHistogram(whereClause, whereArgs)
CallGetTimelineHistogram ==
    \E f \in HistogramFilters :
        /\ \E r \in {GetTimelineHistogram(backend, events, f.whereClause, f.whereArgs)} :
               sret' = [op |-> "GetTimelineHistogram", whereClause |-> f.whereClause,
                        whereArgs |-> f.whereArgs, buckets |-> r.buckets, err |-> r.err,
                        format |-> r.format, queries |-> r.queries, sql |-> r.sql]
        /\ UNCHANGED <<backend, events, serial, meta, tags>>
        /\ UNCHANGED <<predVars, queryVars, otherVars>>

LoadBookmarkEvent == LoadEvent(BookmarkEvents, MaxRows)

\* store.ToggleBookmark(rowid).  sret.chain is the table before the previous
\* call when that call toggled the same row successfully, <<>> otherwise.
CallToggleBookmark ==
    \E rowid \in 1..(MaxRows + 1), execFails \in BOOLEAN :
        /\ \E r \in {ToggleBookmark(events, rowid, execFails)} :
               /\ events' = r.events
               /\ sret' = [op |-> "ToggleBookmark", rowid |-> rowid, val |-> r.val,
                           err |-> r.err, before |-> events,
                           chain |-> IF /\ sret.op = "ToggleBookmark"
                                        /\ sret.rowid = rowid
                                        /\ sret.err = "nil"
                                        /\ r.err = "nil"
                                     THEN sret.before ELSE <<>>]
        /\ UNCHANGED <<backend, serial, meta, tags>>
        /\ UNCHANGED <<predVars, queryVars, otherVars>>

-----------------------------------------------------------------------------
(* Actions: saved queries and the App                                      *)

\* a.loadDatabase(path) on SQLite, a.ConnectPostgres(...) on PostgreSQL
CallOpenDatabase ==
    \E openFails \in BOOLEAN :
        \E r \in {App_Open(app, backend, dbfile, openFails)} :
            /\ app' = r.app
            /\ sret' = [op |-> "OpenDatabase", err |-> r.err]
            /\ UNCHANGED <<backend, events, serial, meta, tags, saved, notes, noteSerial>>
            /\ UNCHANGED <<predVars, queryVars, moreVars>>

\* a.CloseDatabase()
CallCloseDatabase ==
    /\ app' = App_CloseDatabase(app)
    /\ sret' = [op |-> "CloseDatabase", err |-> ""]
    /\ UNCHANGED <<backend, events, serial, meta, tags, saved, notes, noteSerial>>
    /\ UNCHANGED <<predVars, queryVars, moreVars>>

\* store.SaveQuery(name, query) and a.SaveQuery(name, query)
CallSaveQuery ==
    \E name \in QueryNames, query \in QueryTexts, execFails \in BOOLEAN,
       through \in {"Store", "App"} :
        /\ Len(saved) < MaxRows + 1
        /\ \E r \in {IF through = "Store"
                     THEN SaveQuery(saved, name, query, execFails)
                     ELSE App_SaveQuery(app, saved, name, query, execFails)} :
               /\ saved' = r.saved
               /\ sret' = [op |-> "SaveQuery", through |-> through, name |-> name,
                           query |-> query, err |-> r.err, before |-> saved]
        /\ UNCHANGED <<backend, events, serial, meta, tags, app, notes, noteSerial>>
        /\ UNCHANGED <<predVars, queryVars, moreVars>>

\* store.DeleteQuery(name) and a.DeleteSavedQuery(name)
CallDeleteQuery ==
    \E name \in QueryNames, execFails \in BOOLEAN, through \in {"Store", "App"} :
        /\ \E r \in {IF through = "Store"
                     THEN DeleteQuery(saved, name, execFails)
                     ELSE App_DeleteSavedQuery(app, saved, name, execFails)} :
               /\ saved' = r.saved
               /\ sret' = [op |-> "DeleteQuery", through |-> through, name |-> name,
                           err |-> r.err, before |-> saved]
        /\ UNCHANGED <<backend, events, serial, meta, tags, app, notes, noteSerial>>
        /\ UNCHANGED <<predVars, queryVars, moreVars>>

-----------------------------------------------------------------------------
(* Actions: examiner notes                                                 *)

LoadNoteEvent == LoadEvent(NoteEvents, MaxRows - 1)

\* the record of a call on the overlay: the operation and the identifiers
NoteCall(op, id, ids, val) == [op |-> op, id |-> id, ids |-> ids, val |-> val]

\* a note is added
CallInsertExaminerNote ==
    \E n \in NoteInputs, execFails \in BOOLEAN :
        /\ Len(notes) < MaxRows
        /\ NextId(backend, notes, noteSerial) <= MaxRows
        /\ \E r \in {InsertExaminerNote(backend, notes, noteSerial, n.datetime,
                                        n.description, n.tag, execFails)} :
               /\ notes' = r.notes
               /\ noteSerial' = r.serial
               /\ sret' = NoteCall("InsertExaminerNote", PresentedId(r.id), {}, "")
        /\ UNCHANGED <<backend, events, serial, meta, tags, saved, app>>
        /\ UNCHANGED <<predVars, queryVars, moreVars>>

\* the three operations on one presented identifier
CallRoutedToggleBookmark ==
    \E id \in PresentedIds :
        /\ \E r \in {RoutedToggleBookmark(events, notes, id)} :
               /\ events' = r.events
               /\ notes' = r.notes
               /\ sret' = NoteCall("ToggleBookmark", id, {}, "")
        /\ UNCHANGED <<backend, serial, meta, tags, saved, app, noteSerial>>
        /\ UNCHANGED <<predVars, queryVars, moreVars>>

CallRoutedUpdateColor ==
    \E id \in PresentedIds, color \in {"RED"} :
        /\ \E r \in {RoutedUpdateColor(backend, events, notes, id, color)} :
               /\ events' = r.events
               /\ notes' = r.notes
               /\ sret' = NoteCall("UpdateColor", id, {}, color)
        /\ UNCHANGED <<backend, serial, meta, tags, saved, app, noteSerial>>
        /\ UNCHANGED <<predVars, queryVars, moreVars>>

CallRoutedDeleteNote ==
    \E id \in PresentedIds :
        /\ \E r \in {RoutedDeleteNote(events, notes, id)} :
               /\ events' = r.events
               /\ notes' = r.notes
               /\ sret' = NoteCall("DeleteNote", id, {}, "")
        /\ UNCHANGED <<backend, serial, meta, tags, saved, app, noteSerial>>
        /\ UNCHANGED <<predVars, queryVars, moreVars>>

\* the three bulk mutations over a selection of presented identifiers
CallBulkUpdateTag ==
    \E ids \in Selections, tag \in {"reviewed"} :
        /\ \E r \in {BulkUpdateTag(events, notes, ids, tag)} :
               /\ events' = r.events
               /\ notes' = r.notes
               /\ sret' = NoteCall("BulkUpdateTag", 0, ids, tag)
        /\ UNCHANGED <<backend, serial, meta, tags, saved, app, noteSerial>>
        /\ UNCHANGED <<predVars, queryVars, moreVars>>

CallBulkUpdateColor ==
    \E ids \in Selections, color \in {"GREEN"} :
        /\ \E r \in {BulkUpdateColor(events, notes, ids, color)} :
               /\ events' = r.events
               /\ notes' = r.notes
               /\ sret' = NoteCall("BulkUpdateColor", 0, ids, color)
        /\ UNCHANGED <<backend, serial, meta, tags, saved, app, noteSerial>>
        /\ UNCHANGED <<predVars, queryVars, moreVars>>

CallBulkSetBookmark ==
    \E ids \in Selections, val \in {1} :
        /\ \E r \in {BulkSetBookmark(events, notes, ids, val)} :
               /\ events' = r.events
               /\ notes' = r.notes
               /\ sret' = NoteCall("BulkSetBookmark", 0, ids, val)
        /\ UNCHANGED <<backend, serial, meta, tags, saved, app, noteSerial>>
        /\ UNCHANGED <<predVars, queryVars, moreVars>>

-----------------------------------------------------------------------------
(* Actions: indexes                                                        *)

\* store.RebuildIndexes(indexFields)
CallRebuildIndexes ==
    \E indexFields \in IndexFieldInputs, fault \in IndexFaults :
        /\ \E r \in {RebuildIndexes(indexes, indexFields, fault)} :
               /\ indexes' = r.indexes
               /\ sret' = [op |-> "RebuildIndexes", indexFields |-> indexFields,
                           fault |-> fault, err |-> r.err, before |-> indexes]
        /\ UNCHANGED <<backend, events, serial, meta, tags, saved, app, notes, noteSerial>>
        /\ UNCHANGED <<predVars, queryVars, dbfile, loop, toggles>>

-----------------------------------------------------------------------------
(* Actions: running a built statement                                      *)

LoadExecuteEvent == LoadEvent(EventInputs, MaxRows + 1)

\* q := query.New(0); q.SetDialect(dialect of the store); sqlStr, args :=
\* q.Build(); store.ExecuteQuery(sqlStr, args)
CallExecuteQuery ==
    \E built \in {Build([New(0) EXCEPT !.dialect = backend])} :
        \E r \in {ExecuteQuery(backend, events, built.sql)} :
            /\ sret' = [op |-> "ExecuteQuery", sql |-> built.sql, columns |-> r.columns,
                        events |-> r.events, err |-> r.err]
            /\ UNCHANGED <<backend, events, serial, meta, tags>>
            /\ UNCHANGED <<predVars, queryVars, otherVars>>

-----------------------------------------------------------------------------
(* Actions: the RawQuery                                                   *)

\* rq := NewRaw(pageSize, whereClause)
RQNewRaw ==
    /\ \E pageSize \in PageSizeInputs, whereClause \in RawWhereInputs :
        \E r \in {NewRaw(pageSize, whereClause)} :
            /\ q' = r.Query
            /\ rawWhere' = r.rawWhere
            /\ qret' = [op |-> "NewRaw", pageSize |-> pageSize, where |-> whereClause]
    /\ UNCHANGED <<predVars, storeVars>>

\* rq.SetRawWhere(where)
RQSetRawWhere ==
    /\ \E where \in RawWhereInputs :
        /\ rawWhere' = where
        /\ qret' = [op |-> "SetRawWhere", where |-> where]
    /\ UNCHANGED <<q, predVars, storeVars>>

\* rq.Build()
RQBuild ==
    /\ \E r \in {RawBuild(q, rawWhere)} :
           qret' = [op |-> "RawBuild", sql |-> r.sql, args |-> r.args]
    /\ UNCHANGED <<q, rawWhere, predVars, storeVars>>

\* rq.BuildCount(): RawQuery declares no BuildCount, so the call is the
\* BuildCount of the Query it embeds
RQBuildCount ==
    /\ \E r \in {BuildCount(q)} :
           qret' = [op |-> "RawBuildCount", sql |-> r.sql, args |-> r.args]
    /\ UNCHANGED <<q, rawWhere, predVars, storeVars>>

-----------------------------------------------------------------------------
(* Actions: App.ImportCSV                                                  *)

\* a.ImportCSV().  The path chosen for a new database is not the path of
\* the database the session is on.
CallImportCSV ==
    \E file \in ImportFiles, dbPath \in ImportPaths \ {dbfile}, stop \in ImportStops :
        /\ Len(events) + Len(file) <= MaxRows
        /\ serial + Len(file) <= MaxRows + 1
        /\ \E r \in {App_ImportCSV(app,
                        [backend |-> backend, dbfile |-> dbfile, events |-> events,
                         serial |-> serial, meta |-> meta, tags |-> tags,
                         saved |-> saved, indexes |-> indexes],
                        file, dbPath, stop)} :
               /\ app' = r.app
               /\ backend' = r.db.backend
               /\ dbfile' = r.db.dbfile
               /\ events' = r.db.events
               /\ serial' = r.db.serial
               /\ meta' = r.db.meta
               /\ tags' = r.db.tags
               /\ saved' = r.db.saved
               /\ indexes' = r.db.indexes
               /\ sret' = [op |-> "ImportCSV", file |-> file, stop |-> stop,
                           err |-> r.err, created |-> r.created,
                           storeBefore |-> app.store, before |-> events]
        /\ UNCHANGED <<notes, noteSerial, loop, toggles>>
        /\ UNCHANGED <<predVars, queryVars>>

-----------------------------------------------------------------------------
(* Actions: App.QueryEvents, App.ExportCSV                                 *)

LoadRequestEvent == LoadEvent(RequestEvents, MaxRows)

\* a.QueryEvents(req)
CallAppQueryEvents ==
    \E req \in QueryRequests :
        /\ \E r \in {App_QueryEvents(app, backend, events, req)} :
               sret' = [op |-> "App.QueryEvents", req |-> req, matched |-> r.matched,
                        totalCount |-> r.totalCount, err |-> r.err]
        /\ UNCHANGED <<backend, events, serial, meta, tags>>
        /\ UNCHANGED <<predVars, queryVars, otherVars>>

\* a.ExportCSV(req), a path chosen in the save dialog or not
CallExportCSV ==
    \E req \in QueryRequests, savePath \in {"", "export.csv"} :
        /\ \E r \in {App_ExportCSV(app, backend, events, req, savePath)} :
               sret' = [op |-> "App.ExportCSV", req |-> req, matched |-> r.matched,
                        savePath |-> savePath, err |-> r.err]
        /\ UNCHANGED <<backend, events, serial, meta, tags>>
        /\ UNCHANGED <<predVars, queryVars, otherVars>>

\* a.GetTimelineHistogram(req)
CallAppGetTimelineHistogram ==
    \E req \in QueryRequests :
        /\ \E r \in {App_GetTimelineHistogram(app, backend, events, req)} :
               sret' = [op |-> "App.GetTimelineHistogram", req |-> req, err |-> r.err,
                        buckets |-> r.buckets, kept |-> r.kept,
                        whereClause |-> r.whereClause]
        /\ UNCHANGED <<backend, events, serial, meta, tags>>
        /\ UNCHANGED <<predVars, queryVars, otherVars>>

-----------------------------------------------------------------------------
(* Actions: predicate trees                                                *)
(*                                                                         *)
(* preds holds the trees under construction; the last one is the tree the  *)
(* calls render.                                                           *)

\* how many leaves the trees under construction have
RECURSIVE ForestLeaves(_)
ForestLeaves(ps) ==
    IF Len(ps) = 0 THEN 0 ELSE LeafCount(Head(ps)) + ForestLeaves(Tail(ps))

\* Simple(...) or DateRange(...): a new leaf
TreePushLeaf ==
    /\ ForestLeaves(preds) < MaxPreds
    /\ \E leaf \in TreeLeaves : preds' = Append(preds, leaf)
    /\ combineRet' = NoCall
    /\ UNCHANGED <<simpleRet, queryVars, storeVars>>

\* Combine([]*Predicate{l, r}, logic) of the last two trees
TreeCombine ==
    /\ Len(preds) >= 2
    /\ \E logic \in {AND, OR} :
        preds' = Append(SubSeq(preds, 1, Len(preds) - 2),
                        Combine(SubSeq(preds, Len(preds) - 1, Len(preds)), logic))
    /\ combineRet' = NoCall
    /\ UNCHANGED <<simpleRet, queryVars, storeVars>>

\* &Predicate{kind: predComposite, left: l, right: r, logic: logic} written
\* out inside the package: a composite whose sides may be nil
TreeComposite ==
    /\ Len(preds) >= 2
    /\ Nil \in {preds[Len(preds) - 1], preds[Len(preds)]}
    /\ \E logic \in {AND, OR} :
        preds' = Append(SubSeq(preds, 1, Len(preds) - 2),
                        Composite(preds[Len(preds) - 1], preds[Len(preds)], logic))
    /\ combineRet' = NoCall
    /\ UNCHANGED <<simpleRet, queryVars, storeVars>>

\* p.whereClauseWithDialect(d, 1) of the last tree
TreeRender ==
    /\ Len(preds) >= 1
    /\ \E d \in Dialects :
        combineRet' = [op |-> "Render", tree |-> preds[Len(preds)], dialect |-> d,
                       where |-> whereClauseWithDialect(preds[Len(preds)], d, 1)]
    /\ UNCHANGED <<preds, simpleRet, queryVars, storeVars>>

\* the last tree rendered by each dialect and executed on a store of that
\* backend seeded with SeedEvents
TreeRoundTrip ==
    /\ Len(preds) >= 1
    /\ combineRet' = [op |-> "RoundTrip", tree |-> preds[Len(preds)],
                      lite |-> RoundTrip("sqlite", SeedEvents, preds[Len(preds)]),
                      pg |-> RoundTrip("pgx", SeedEvents, preds[Len(preds)])]
    /\ UNCHANGED <<preds, simpleRet, queryVars, storeVars>>

-----------------------------------------------------------------------------
(* Actions: InsertEvents row by row                                        *)

\* store.InsertEvents(events, onProgress) is called
InsertBegin ==
    /\ loop.pc # "rows"
    /\ \E n \in BatchSizes, onProgress \in BOOLEAN :
           \E failAt \in BatchFaults(n) :
               loop' = InsertEvents_Begin(n, onProgress, failAt)
    /\ UNCHANGED <<predVars, queryVars, backend, events, serial, meta, tags, sret>>
    /\ UNCHANGED <<saved, app, notes, noteSerial, indexes, dbfile, toggles>>

\* the loop body runs for the next row
InsertRow ==
    /\ loop.pc = "rows"
    /\ loop.inserted < loop.n
    /\ loop' = InsertEvents_Row(loop)
    /\ UNCHANGED <<predVars, queryVars, backend, events, serial, meta, tags, sret>>
    /\ UNCHANGED <<saved, app, notes, noteSerial, indexes, dbfile, toggles>>

\* the loop is over and the transaction commits
InsertCommit ==
    /\ loop.pc = "rows"
    /\ loop.inserted = loop.n
    /\ loop' = InsertEvents_Commit(loop)
    /\ UNCHANGED <<predVars, queryVars, backend, events, serial, meta, tags, sret>>
    /\ UNCHANGED <<saved, app, notes, noteSerial, indexes, dbfile, toggles>>

-----------------------------------------------------------------------------
(* Actions: ToggleBookmark calls that overlap                              *)

\* store.ToggleBookmark(rowid) is called while other calls may be running.
\* sret keeps the table as it was when the first of the calls came in.
ToggleCall ==
    /\ Len(toggles) < MaxCallers
    /\ \E rowid \in 1..(MaxRows + 1) :
           toggles' = Append(toggles, ToggleEntered(rowid))
    /\ sret' = IF toggles = <<>>
               THEN [op |-> "ToggleBookmark calls", before |-> events]
               ELSE sret
    /\ UNCHANGED <<predVars, queryVars, backend, events, serial, meta, tags>>
    /\ UNCHANGED <<saved, app, notes, noteSerial, indexes, dbfile, loop>>

\* one of the calls runs its UPDATE
ToggleExec ==
    \E c \in 1..Len(toggles), execFails \in BOOLEAN :
        /\ toggles[c].pc = "update"
        /\ \E r \in {ToggleBookmark_Exec(toggles[c], events, execFails)} :
               /\ events' = r.events
               /\ toggles' = [toggles EXCEPT ![c] = r.call]
        /\ UNCHANGED <<predVars, queryVars, backend, serial, meta, tags, sret>>
        /\ UNCHANGED <<saved, app, notes, noteSerial, indexes, dbfile, loop>>

\* one of the calls runs its SELECT and returns
ToggleQueryRow ==
    \E c \in 1..Len(toggles) :
        /\ toggles[c].pc = "select"
        /\ toggles' = [toggles EXCEPT ![c] = ToggleBookmark_QueryRow(toggles[c], events)]
        /\ UNCHANGED <<predVars, queryVars, backend, events, serial, meta, tags, sret>>
        /\ UNCHANGED <<saved, app, notes, noteSerial, indexes, dbfile, loop>>

-----------------------------------------------------------------------------
(* Actions: the session of the App across databases                        *)

\* the tables of the database the session is on
CurrentDatabase ==
    [backend |-> backend, dbfile |-> dbfile, events |-> events, serial |-> serial,
     meta |-> meta, tags |-> tags, saved |-> saved, indexes |-> indexes]

\* the session moves to the database db when the call leaves a store open
\* on it, and stays on the tables it had otherwise
MoveTo(a) ==
    /\ app' = a
    /\ \E d \in {IF a.store # NoStore /\ a.store # app.store
                 THEN DatabaseAt(a.store.backend, a.store.path, CurrentDatabase)
                 ELSE CurrentDatabase} :
           /\ backend' = d.backend
           /\ dbfile' = d.dbfile
           /\ events' = d.events
           /\ serial' = d.serial
           /\ meta' = d.meta
           /\ tags' = d.tags
           /\ saved' = d.saved
           /\ indexes' = d.indexes
    /\ UNCHANGED <<notes, noteSerial, loop, toggles>>
    /\ UNCHANGED <<predVars, queryVars>>

\* a.OpenDatabase()
SessionOpenDatabase ==
    \E path \in SessionPaths, openFails \in BOOLEAN :
        \E r \in {App_OpenDatabase(app, path, openFails)} :
            /\ MoveTo(r.app)
            /\ sret' = [op |-> "OpenDatabase", err |-> r.err, storeBefore |-> app.store]

\* a.ConnectPostgres(...)
SessionConnectPostgres ==
    \E connStr \in SessionConns, openFails \in BOOLEAN :
        \E r \in {App_ConnectPostgres(app, connStr, openFails)} :
            /\ MoveTo(r.app)
            /\ sret' = [op |-> "ConnectPostgres", err |-> r.err,
                        storeBefore |-> app.store]

\* a.CreatePostgresDatabase(...)
SessionCreatePostgresDatabase ==
    \E connStr \in SessionConns, createFails \in BOOLEAN :
        \E r \in {App_CreatePostgresDatabase(app, connStr, createFails)} :
            /\ MoveTo(r.app)
            /\ sret' = [op |-> "CreatePostgresDatabase", err |-> r.err,
                        storeBefore |-> app.store]

\* a.PushToPostgres(...)
SessionPushToPostgres ==
    \E stop \in PushStops :
        \E r \in {App_PushToPostgres(app, events, stop)} :
            /\ MoveTo(r.app)
            /\ sret' = [op |-> "PushToPostgres", err |-> r.err, pushed |-> r.pushed,
                        storeBefore |-> app.store]

\* a.ToggleBookmark(rowid)
SessionToggleBookmark ==
    \E rowid \in 1..MaxRows, execFails \in BOOLEAN :
        \E r \in {App_ToggleBookmark(app, events, rowid, execFails)} :
            /\ events' = r.events
            /\ sret' = [op |-> "ToggleBookmark", err |-> r.err, val |-> r.val,
                        storeBefore |-> app.store]
            /\ UNCHANGED <<backend, serial, meta, tags>>
            /\ UNCHANGED <<predVars, queryVars, otherVars>>

\* a.SaveQuery(name, query)
SessionSaveQuery ==
    \E name \in QueryNames, query \in QueryTexts, execFails \in BOOLEAN :
        /\ Len(saved) < MaxRows
        /\ \E r \in {App_SaveQuery(app, saved, name, query, execFails)} :
               /\ saved' = r.saved
               /\ sret' = [op |-> "SaveQuery", err |-> r.err, storeBefore |-> app.store]
        /\ UNCHANGED <<backend, events, serial, meta, tags, app, notes, noteSerial>>
        /\ UNCHANGED <<predVars, queryVars, moreVars>>

-----------------------------------------------------------------------------
(* Specifications                                                          *)

Init ==
    /\ preds = <<>>
    /\ simpleRet = NoCall
    /\ combineRet = NoCall
    /\ q \in {New(pageSize) : pageSize \in PageSizeInputs}
    /\ qret = NoCall
    /\ backend \in Dialects
    /\ events = <<>>
    /\ serial = 0
    /\ meta = EmptyMetadata
    /\ tags = EmptyBag
    /\ sret = NoCall
    /\ saved = <<>>
    /\ app = NewApp
    /\ notes = <<>>
    /\ noteSerial = 0
    /\ indexes = IndexNames(DefaultIndexFields)
    /\ rawWhere = ""
    /\ dbfile = DefaultPath(backend)
    /\ loop = NoLoop
    /\ toggles = NoToggles

InitCombine == Init /\ q = New(0) /\ backend = "sqlite"

\* the arguments of one call of Simple and of the rendering of its result
SimpleArgs ==
    [op : {"args"}, field : FieldInputs, operator : OperatorInputs,
     value : ValueInputs, dialect : Dialects, startIdx : 1..2,
     ret : {Nil}, where : {Nil}]

InitSimple ==
    /\ preds = <<>>
    /\ simpleRet \in SimpleArgs
    /\ combineRet = NoCall
    /\ q = New(0)
    /\ qret = NoCall
    /\ backend = "sqlite"
    /\ events = <<>>
    /\ serial = 0
    /\ meta = EmptyMetadata
    /\ tags = EmptyBag
    /\ sret = NoCall
    /\ saved = <<>>
    /\ app = NewApp
    /\ notes = <<>>
    /\ noteSerial = 0
    /\ indexes = IndexNames(DefaultIndexFields)
    /\ rawWhere = ""
    /\ dbfile = DefaultPath(backend)
    /\ loop = NoLoop
    /\ toggles = NoToggles

NextSimple == CallSimple

SpecSimple == InitSimple /\ [][NextSimple]_vars

NextCombine == AppendSimple \/ AppendDateRange \/ ClearSlice \/ CallCombine

SpecCombine == InitCombine /\ [][NextCombine]_vars

InitQuery == Init /\ backend = "sqlite"

NextQuery ==
    \/ QNew \/ QSetDialect \/ QSetLogic
    \/ QAddPredicate \/ QRemovePredicate \/ QClearPredicates
    \/ QOrderBy \/ QSetPage \/ QPageNumber
    \/ QBuild \/ QBuildCount

SpecQuery == InitQuery /\ [][NextQuery]_vars

InitStore == Init /\ q = New(0)

NextStore == CallInsertEvents \/ CallQueryEvents

SpecStore == InitStore /\ [][NextStore]_vars

NextUpdate == LoadUpdateEvent \/ CallUpdateEvent \/ CallGetDistinctValues

SpecUpdate == InitStore /\ [][NextUpdate]_vars

NextMeta == LoadMetadataEvent \/ CallUpdateMetadata

SpecMeta == InitStore /\ [][NextMeta]_vars

NextHistogram == LoadHistogramEvent \/ CallGetTimelineHistogram

SpecHistogram == InitStore /\ [][NextHistogram]_vars

NextBookmark == LoadBookmarkEvent \/ CallToggleBookmark

SpecBookmark == InitStore /\ [][NextBookmark]_vars

NextSaved == CallOpenDatabase \/ CallCloseDatabase \/ CallSaveQuery \/ CallDeleteQuery

SpecSaved == InitStore /\ [][NextSaved]_vars

NextNotes ==
    \/ LoadNoteEvent
    \/ CallInsertExaminerNote
    \/ CallRoutedToggleBookmark
    \/ CallRoutedUpdateColor
    \/ CallRoutedDeleteNote

SpecNotes == InitStore /\ [][NextNotes]_vars

NextBulk ==
    \/ LoadNoteEvent
    \/ CallInsertExaminerNote
    \/ CallRoutedDeleteNote
    \/ CallBulkUpdateTag
    \/ CallBulkUpdateColor
    \/ CallBulkSetBookmark

SpecBulk == InitStore /\ [][NextBulk]_vars

NextIndexes == CallRebuildIndexes

SpecIndexes == InitStore /\ [][NextIndexes]_vars

NextExecute == LoadExecuteEvent \/ CallExecuteQuery

SpecExecute == InitStore /\ [][NextExecute]_vars

NextRaw ==
    \/ RQNewRaw
    \/ RQSetRawWhere
    \/ RQBuild
    \/ RQBuildCount
    \/ QSetDialect
    \/ QAddPredicate
    \/ QOrderBy
    \/ QSetPage

SpecRaw == InitQuery /\ [][NextRaw]_vars

NextImport == CallOpenDatabase \/ CallCloseDatabase \/ CallImportCSV

SpecImport == InitStore /\ [][NextImport]_vars

NextRequest ==
    \/ LoadRequestEvent \/ CallOpenDatabase \/ CallAppQueryEvents \/ CallExportCSV

SpecRequest == InitStore /\ [][NextRequest]_vars

NextTimeline ==
    \/ LoadRequestEvent \/ CallOpenDatabase \/ CallAppQueryEvents
    \/ CallAppGetTimelineHistogram

SpecTimeline == InitStore /\ [][NextTimeline]_vars

NextTree == TreePushLeaf \/ TreeCombine \/ TreeComposite \/ TreeRender \/ TreeRoundTrip

SpecTree == InitCombine /\ [][NextTree]_vars

NextProgress == InsertBegin \/ InsertRow \/ InsertCommit

SpecProgress == InitStore /\ [][NextProgress]_vars

NextToggles == LoadBookmarkEvent \/ ToggleCall \/ ToggleExec \/ ToggleQueryRow

SpecToggles == InitStore /\ [][NextToggles]_vars

NextSession ==
    \/ SessionOpenDatabase \/ SessionConnectPostgres \/ SessionCreatePostgresDatabase
    \/ SessionPushToPostgres \/ CallCloseDatabase \/ CallImportCSV
    \/ SessionToggleBookmark \/ SessionSaveQuery

SpecSession == InitStore /\ [][NextSession]_vars

-----------------------------------------------------------------------------
(* Properties of the predicate algebra                                     *)

\* whether sub occurs in s
Contains(s, sub) ==
    \E i \in 1..(Len(s) - Len(sub) + 1) : SubSeq(s, i, i + Len(sub) - 1) = sub

\* whether s ends with suffix
EndsWith(s, suffix) ==
    /\ Len(s) >= Len(suffix)
    /\ SubSeq(s, Len(s) - Len(suffix) + 1, Len(s)) = suffix

\* C1: Simple(f, op, v) is non-nil exactly when f is a column of model.Fields
\* and op is one of =, !=, LIKE, NOT LIKE, >=, <=; a nil result renders to no
\* SQL and no arguments.
C1_SimpleNonNilIffWhitelisted ==
    simpleRet.op = "Simple" =>
        /\ simpleRet.ret # Nil <=>
               /\ simpleRet.field \in FieldSet
               /\ simpleRet.operator \in {"=", "!=", "LIKE", "NOT LIKE", ">=", "<="}
        /\ simpleRet.ret = Nil =>
               /\ simpleRet.where.sql = ""
               /\ simpleRet.where.args = <<>>

\* a whitelisted field with an operator outside the six is refused
C1_Witness ==
    /\ simpleRet.op = "Simple"
    /\ simpleRet.field = "source"
    /\ simpleRet.operator = "<"
    /\ simpleRet.ret = Nil

\* C2: rendering a simple predicate binds exactly one argument, %value% for
\* LIKE and NOT LIKE and the value itself for the other operators, and the
\* SQL text does not hold the value: it is the same text for every value and
\* the value does not occur in it.
C2_SimpleBindsOneArgument ==
    (simpleRet.op = "Simple" /\ simpleRet.ret # Nil) =>
        /\ Len(simpleRet.where.args) = 1
        /\ simpleRet.where.next = simpleRet.startIdx + 1
        /\ simpleRet.where.args[1] =
               IF simpleRet.operator \in {"LIKE", "NOT LIKE"}
               THEN "%" \o simpleRet.value \o "%"
               ELSE simpleRet.value
        /\ ~Contains(simpleRet.where.sql, simpleRet.value)
        /\ \A v \in ValueInputs :
               whereClauseWithDialect(
                   Simple(simpleRet.field, simpleRet.operator, v),
                   simpleRet.dialect, simpleRet.startIdx).sql = simpleRet.where.sql

\* a NOT LIKE predicate rendered for PostgreSQL binds the wrapped value
C2_Witness ==
    /\ simpleRet.op = "Simple"
    /\ simpleRet.operator = "NOT LIKE"
    /\ simpleRet.dialect = "pgx"
    /\ simpleRet.where.args = <<"%x' OR '1'='1%">>

\* the left-associative rendering of the first n of the predicates nn
RECURSIVE LeftFold(_, _, _, _)
LeftFold(nn, n, logic, d) ==
    IF n = 1 THEN whereClauseWithDialect(nn[1], d, 1)
    ELSE LET l == LeftFold(nn, n - 1, logic, d)
             r == whereClauseWithDialect(nn[n], d, l.next)
         IN  [sql |-> "(" \o l.sql \o " " \o logic \o " " \o r.sql \o ")",
              args |-> l.args \o r.args, next |-> r.next]

-----------------------------------------------------------------------------
(* Properties of the Query                                                 *)

\* C4: BuildCount emits the WHERE fragment and the arguments Build emits for
\* the same Query; it projects COUNT(id column) and has no ORDER BY and no
\* LIMIT/OFFSET.
C4_BuildCountSharesWhere ==
    qret.op = "BuildCount" =>
        LET b == Build(q)
            head == "SELECT COUNT(" \o (IF q.dialect = "pgx" THEN "id" ELSE "rowid")
                        \o ") FROM log2timeline"
            w == SubSeq(qret.sql, Len(head) + 1, Len(qret.sql))
        IN  /\ SubSeq(qret.sql, 1, Len(head)) = head
            /\ w = "" \/ SubSeq(w, 1, 7) = " WHERE "
            /\ qret.args = b.args
            /\ b.sql = "SELECT " \o SelectFields(q.dialect) \o " FROM log2timeline"
                          \o w \o OrderClause(q) \o LimitClause(q)
            /\ ~Contains(qret.sql, " ORDER BY ")
            /\ ~Contains(qret.sql, " LIMIT ")
            /\ ~Contains(qret.sql, " OFFSET ")

\* a count over two OR-ed predicates of an ordered, paged query
C4_Witness ==
    /\ qret.op = "BuildCount"
    /\ Len(q.predicates) = 2
    /\ q.logic = OR
    /\ Len(qret.args) >= 2
    /\ q.orderBy # ""
    /\ q.pageSize > 0
    /\ q.page > 1

\* C5: a new Query is on page 1; SetPage(n) moves to page n when n >= 1 and
\* leaves the page alone otherwise; Build ends with LIMIT S OFFSET S*(page-1)
\* when the page size S is positive and has no LIMIT/OFFSET when S is 0.
C5_SetPageAndLimit ==
    /\ qret.op = "New" => q.page = 1
    /\ qret.op = "SetPage" =>
           q.page = IF qret.page >= 1 THEN qret.page ELSE qret.before
    /\ qret.op = "Build" =>
           IF q.pageSize > 0
           THEN EndsWith(qret.sql, " LIMIT " \o ToString(q.pageSize) \o " OFFSET "
                                       \o ToString(q.pageSize * (q.page - 1)))
           ELSE ~Contains(qret.sql, " LIMIT ") /\ ~Contains(qret.sql, " OFFSET ")

\* SetPage(0) on a Query that is past page 1
C5_Witness ==
    /\ qret.op = "SetPage"
    /\ qret.page = 0
    /\ qret.before > 1
    /\ q.pageSize > 0

\* C6: OrderBy("") clears the ordering; OrderBy of a field that is neither a
\* column of model.Fields nor the dialect's id column fails and keeps the
\* order column; OrderBy of a valid field succeeds and Build orders by that
\* column, quoted for the dialect.
C6_OrderByValidates ==
    qret.op = "OrderBy" =>
        LET f == qret.field
            idCol == IF q.dialect = "pgx" THEN "id" ELSE "rowid"
            quoted == IF q.dialect = "pgx" /\ f \in {"user", "desc", "offset"}
                      THEN "\"" \o f \o "\"" ELSE f
            b == Build(q)
        IN  /\ f = "" =>
                   /\ qret.err = "nil"
                   /\ q.orderBy = ""
                   /\ ~Contains(b.sql, " ORDER BY ")
            /\ (f # "" /\ f \notin FieldSet /\ f # idCol) =>
                   /\ qret.err # "nil"
                   /\ q.orderBy = qret.before
            /\ (f # "" /\ (f \in FieldSet \/ f = idCol)) =>
                   /\ qret.err = "nil"
                   /\ EndsWith(b.sql, " ORDER BY " \o quoted \o LimitClause(q))

\* an invalid field is refused while an order column is set
C6_Witness ==
    /\ qret.op = "OrderBy"
    /\ qret.err # "nil"
    /\ qret.before = "desc"
    /\ q.dialect = "pgx"

-----------------------------------------------------------------------------
(* Properties of the Store                                                 *)

\* the row holds event e: each column has the value of the field tagged with
\* it, as the backend stores it (PostgreSQL: text without null bytes, and a
\* datetime it cannot take as NULL)
RowHoldsEvent(be, row, e) ==
    \A f \in EventFieldNames :
        LET c == dbTag[f]
        IN  \/ c \notin row.nulls /\ row.cols[c] = e[f]
            \/ /\ be = "pgx" /\ f \notin IntEventFields
               /\ c \notin row.nulls /\ row.cols[c] = pgSanitizeString(e[f])
            \/ /\ be = "pgx" /\ f = "Datetime"
               /\ c \in row.nulls /\ pgSanitizeDatetime(e[f]).null

\* the last call was InsertEvents and the Exec of row k failed
InsertFailedAt(k) ==
    sret.op = "InsertEvents" /\ sret.fault = "exec" /\ sret.failAt = k

\* C7: InsertEvents is all-or-nothing.  If inserting the k-th of N rows
\* fails, the call returns the count k-1 together with an error and the event
\* table holds exactly the rows it held before the call; if no row fails and
\* the commit succeeds it returns N and all N rows are present (after the rows
\* the table held, each under an identifier of its own).
C7_InsertEventsAllOrNothing ==
    sret.op = "InsertEvents" =>
        LET N == Len(sret.batch)
            old == Len(sret.before)
        IN  /\ \A k \in 1..N :
                   InsertFailedAt(k) =>
                       /\ sret.count = k - 1
                       /\ sret.err # "nil"
                       /\ events = sret.before
            /\ sret.fault = "none" =>
                   /\ sret.count = N
                   /\ sret.err = "nil"
                   /\ Len(events) = old + N
                   /\ SubSeq(events, 1, old) = sret.before
                   /\ \A i \in 1..N : RowHoldsEvent(backend, events[old + i], sret.batch[i])
                   /\ \A i, j \in 1..Len(events) : i # j => events[i].id # events[j].id

\* the second of two rows failed: one row had been inserted, none is left
C7_Witness ==
    /\ InsertFailedAt(2)
    /\ Len(sret.batch) = 2
    /\ sret.count = 1
    /\ sret.err = "inserting event 2"
    /\ events = <<>>

\* the name is a column of the model.Fields whitelist
Whitelisted(name) == name \in {Fields[i] : i \in 1..Len(Fields)}

\* C8: UpdateEvent and GetDistinctValues reject any column name outside the
\* model.Fields whitelist with an error before any SQL statement is executed:
\* when at least one key of an UpdateEvent field map is invalid, no column of
\* any row is modified, even if other keys of the same map are valid.
C8_InvalidColumnRejectedBeforeSQL ==
    /\ (sret.op = "UpdateEvent" /\ \E k \in DOMAIN sret.fields : ~Whitelisted(k)) =>
           /\ sret.err # "nil"
           /\ sret.execs = 0
           /\ events = sret.before
    /\ (sret.op = "GetDistinctValues" /\ ~Whitelisted(sret.fieldName)) =>
           /\ sret.err # "nil"
           /\ sret.execs = 0

\* a map with a valid and an invalid key, aimed at an existing row: rejected,
\* and the row keeps its colour
C8_Witness ==
    /\ sret.op = "UpdateEvent"
    /\ DOMAIN sret.fields = {"color", "bookmark"}
    /\ sret.err = "invalid field name: bookmark"
    /\ \E i \in 1..Len(events) :
           events[i].id = sret.rowid /\ events[i].cols["color"] # sret.fields["color"]

\* the last call was an UpdateEvent that returned nil
UpdateSucceeded == sret.op = "UpdateEvent" /\ sret.err = "nil"

\* a successful UpdateEvent changed only the named columns of the row rowid
UpdateFrame ==
    /\ Len(events) = Len(sret.before)
    /\ \A i \in 1..Len(events) :
           /\ events[i].id = sret.before[i].id
           /\ events[i].id # sret.rowid => events[i] = sret.before[i]
           /\ \A c \in ColumnSet \ DOMAIN sret.fields :
                  /\ events[i].cols[c] = sret.before[i].cols[c]
                  /\ c \in events[i].nulls <=> c \in sret.before[i].nulls

\* every scan after the update returns, for the row rowid, a value accepted
\* by Accept(column, new value, scanned value) in each named column
ScanReturns(Accept(_, _, _)) ==
    \A r \in QueryEvents(backend, events) :
        /\ r.err = "nil"
        /\ \A i \in 1..Len(r.events) :
               r.events[i].ID = sret.rowid =>
                   \A f \in EventFieldNames :
                       dbTag[f] \in DOMAIN sret.fields =>
                           Accept(dbTag[f], sret.fields[dbTag[f]], r.events[i].fields[f])

ExpectedFrequencies(f) ==
    LET holds(v) == {i \in 1..Len(events) : f \notin events[i].nulls /\ events[i].cols[f] = v}
    IN  {[value |-> v, frequency |-> Cardinality(holds(v))] :
            v \in {events[i].cols[f] : i \in 1..Len(events)} \ {""}}

\* s[a..b] is a trimmed non-empty token of the comma-separated string s: it has
\* no comma, begins and ends with a character that is not white space, and
\* only white space lies between it and the nearest comma (or end) on each side
IsToken(s, a, b) ==
    LET ch(i) == SubSeq(s, i, i)
    IN  /\ \A i \in a..b : ch(i) # ","
        /\ ch(a) \notin WhiteSpace /\ ch(b) \notin WhiteSpace
        /\ \E l \in 0..(a - 1) :
               /\ l = 0 \/ ch(l) = ","
               /\ \A i \in (l + 1)..(a - 1) : ch(i) \in WhiteSpace
        /\ \E r \in (b + 1)..(Len(s) + 1) :
               /\ r = Len(s) + 1 \/ ch(r) = ","
               /\ \A i \in (b + 1)..(r - 1) : ch(i) \in WhiteSpace

ExpectedTags ==
    UNION {LET s == events[i].cols["tag"]
           IN  {SubSeq(s, a, b) : <<a, b>> \in {p \in (1..Len(s)) \X (1..Len(s)) :
                                                  p[1] <= p[2] /\ IsToken(s, p[1], p[2])}} :
           i \in 1..Len(events)}

\* the bag holds each element of the set once and nothing else
ExactlyOnce(bag, set) == bag = SetToBag(set)

\* C10: after a successful UpdateMetadata, whatever the tables held before,
\* each per-column frequency table l2t_<column>s contains exactly one row per
\* distinct non-empty value of that column in the event table, with frequency
\* equal to the number of events holding that value, and l2t_tags contains
\* exactly one row per distinct trimmed non-empty token obtained by splitting
\* the events' tag strings on commas.
C10_UpdateMetadataRebuildsTables ==
    (sret.op = "UpdateMetadata" /\ sret.err = "nil") =>
        /\ \A f \in MetadataFieldSet : ExactlyOnce(meta[f], ExpectedFrequencies(f))
        /\ ExactlyOnce(tags, ExpectedTags)

\* sources [FILE, REG, FILE] give FILE -> 2, REG -> 1, and the tag strings
\* "malware, suspicious", " suspicious ,,lateral movement" and "malware" give
\* three tags
C10_Witness ==
    /\ sret.op = "UpdateMetadata" /\ sret.err = "nil"
    /\ [i \in 1..Len(events) |-> events[i].cols["source"]] = <<"FILE", "REG", "FILE">>
    /\ meta["source"] = SetToBag({[value |-> "FILE", frequency |-> 2],
                                  [value |-> "REG", frequency |-> 1]})
    /\ tags = SetToBag({"malware", "suspicious", "lateral movement"})

-----------------------------------------------------------------------------
(* Properties of the timeline histogram                                    *)

\* the datetimes of the rows the last histogram call's filter keeps
FilteredDatetimes ==
    {events[i].cols["datetime"] :
        i \in {j \in FilteredRows(events, sret.whereClause, sret.whereArgs) :
                  "datetime" \notin events[j].nulls}}

\* every bucket of the last call carries a label of the given length:
\* 19 for an hour (YYYY-MM-DD HH:00:00), 10 for a day, 7 for a month
LabelsOfLength(n) ==
    /\ sret.err = "nil"
    /\ sret.buckets # <<>>
    /\ \A k \in 1..Len(sret.buckets) :
           /\ Len(sret.buckets[k].Timestamp) = n
           /\ n = 19 => SubSeq(sret.buckets[k].Timestamp, 14, 19) = ":00:00"

\* C11: GetTimelineHistogram chooses the bucket granularity from the filtered
\* minimum and maximum datetime: both on the same calendar day gives hourly
\* labels; different days in the same calendar month gives daily labels;
\* different months in the same calendar year gives daily labels; different
\* calendar years gives monthly labels (every row the filter keeps having a
\* date and time).
C11_HistogramGranularity ==
    (/\ sret.op = "GetTimelineHistogram"
     /\ FilteredDatetimes # {}
     /\ \A i \in FilteredRows(events, sret.whereClause, sret.whereArgs) :
            "datetime" \notin events[i].nulls /\ IsDateTime(events[i].cols["datetime"])) =>
        LET lo == MinText(FilteredDatetimes)
            hi == MaxText(FilteredDatetimes)
            day(d) == SubSeq(d, 1, 10)
            month(d) == SubSeq(d, 1, 7)
            year(d) == SubSeq(d, 1, 4)
        IN  /\ day(lo) = day(hi) => LabelsOfLength(19)
            /\ (day(lo) # day(hi) /\ month(lo) = month(hi)) => LabelsOfLength(10)
            /\ (month(lo) # month(hi) /\ year(lo) = year(hi)) => LabelsOfLength(10)
            /\ year(lo) # year(hi) => LabelsOfLength(7)

\* two events in different months of one year: two daily buckets
C11_Witness ==
    /\ sret.op = "GetTimelineHistogram"
    /\ sret.whereClause = ""
    /\ sret.format = "%Y-%m-%d"
    /\ sret.buckets = << [Timestamp |-> "2025-01-15", Count |-> 1],
                         [Timestamp |-> "2025-03-01", Count |-> 1] >>

\* C12: on both backends, GetTimelineHistogram called with a filter that
\* matches no rows returns an empty bucket list and no error, and does not
\* run the grouped (GROUP BY) query.
C12_EmptyRangeShortCircuits ==
    (/\ sret.op = "GetTimelineHistogram"
     /\ FilteredRows(events, sret.whereClause, sret.whereArgs) = {}) =>
        /\ sret.buckets = <<>>
        /\ sret.err = "nil"
        /\ sret.queries = 1

-----------------------------------------------------------------------------
(* Properties of bookmarks                                                 *)

\* the bookmark flag of the row with the given identifier
FlagOf(rows, rowid) ==
    rows[CHOOSE i \in 1..Len(rows) : rows[i].id = rowid].cols["bookmark"]

\* C13: with no concurrent writer, ToggleBookmark(id) on an existing event
\* sets the bookmark flag to the complement of its current value (1 becomes
\* 0, any other value becomes 1), changes no other row or column, and returns
\* the value now stored; two consecutive toggles on a row whose flag is 0 or
\* 1 restore the original flag.
C13_ToggleBookmarkComplements ==
    (/\ sret.op = "ToggleBookmark"
     /\ sret.err = "nil"
     /\ \E i \in 1..Len(sret.before) : sret.before[i].id = sret.rowid) =>
        /\ FlagOf(events, sret.rowid) = IF FlagOf(sret.before, sret.rowid) = 1 THEN 0 ELSE 1
        /\ sret.val = FlagOf(events, sret.rowid)
        /\ Len(events) = Len(sret.before)
        /\ \A i \in 1..Len(events) :
               /\ events[i].id = sret.before[i].id
               /\ events[i].id # sret.rowid => events[i] = sret.before[i]
               /\ \A c \in ColumnSet \ {"bookmark"} :
                      events[i].cols[c] = sret.before[i].cols[c]
        /\ (sret.chain # <<>> /\ FlagOf(sret.chain, sret.rowid) \in {0, 1}) =>
               /\ FlagOf(events, sret.rowid) = FlagOf(sret.chain, sret.rowid)
               /\ events = sret.chain

\* the second of two toggles of a set flag, next to a row left alone
C13_Witness ==
    /\ sret.op = "ToggleBookmark"
    /\ sret.err = "nil"
    /\ sret.chain # <<>>
    /\ Len(events) = 2
    /\ FlagOf(sret.chain, sret.rowid) = 1
    /\ FlagOf(sret.before, sret.rowid) = 0
    /\ sret.val = 1

-----------------------------------------------------------------------------
(* Properties of saved queries                                             *)

\* C14: after any sequence of SaveQuery and DeleteQuery calls, through the
\* Store or through the App's SaveQuery and DeleteSavedQuery, no two rows of
\* the saved-query table share a name.
C14_SavedQueryNamesUnique ==
    \A i, j \in 1..Len(saved) : saved[i].name = saved[j].name => i = j

-----------------------------------------------------------------------------
(* Properties of examiner notes                                            *)

\* the rows of a table, by id
RowById(rows, id) == rows[CHOOSE i \in 1..Len(rows) : rows[i].id = id]

IdsIn(rows) == {rows[i].id : i \in 1..Len(rows)}

\* every row but the one with the given id is what it was
OthersKept(before, after, id) ==
    /\ IdsIn(after) \ {id} = IdsIn(before) \ {id}
    /\ \A k \in IdsIn(before) \ {id} : RowById(after, k) = RowById(before, k)

\* what the operation op does to the row with the given id of a table, told
\* by the columns of the row; flag and color read the two columns of a row
RowActed(before, after, id, op, val, Flag(_), Color(_), Same(_, _)) ==
    /\ OthersKept(before, after, id)
    /\ id \in IdsIn(before) =>
           CASE op = "DeleteNote" -> id \notin IdsIn(after)
             [] op = "ToggleBookmark" ->
                    /\ id \in IdsIn(after)
                    /\ Flag(RowById(after, id)) = 1 - Flag(RowById(before, id))
                    /\ Same(RowById(after, id), RowById(before, id))
             [] op = "UpdateColor" ->
                    /\ id \in IdsIn(after)
                    /\ Color(RowById(after, id)) = val
                    /\ Same(RowById(after, id), RowById(before, id))
    /\ id \notin IdsIn(before) => id \notin IdsIn(after)

NoteFlag(r) == r.bookmark

NoteColor(r) == r.color

NoteSame(r, s) ==
    /\ r.datetime = s.datetime
    /\ r.description = s.description
    /\ r.tag = s.tag

EventFlag(r) == r.cols["bookmark"]

EventColor(r) == r.cols["color"]

EventSame(r, s) ==
    \A c \in ColumnSet \ {"bookmark", "color"} : r.cols[c] = s.cols[c]

RoutedOps == {"ToggleBookmark", "UpdateColor", "DeleteNote"}

SelectedEvents(ids, rows) == EventIdsOf(ids) \cap IdsIn(rows)

SelectedNotes(ids, rows) == NoteIdsOf(ids) \cap IdsIn(rows)

BulkOps == {"BulkUpdateTag", "BulkUpdateColor", "BulkSetBookmark"}

-----------------------------------------------------------------------------
(* Properties of the indexes                                               *)

\* C17: after a successful RebuildIndexes(L), for every column c of the
\* event table the index c_idx exists if and only if c is in L.
C17_IndexesMatchList ==
    sret.op = "RebuildIndexes" /\ sret.err = "nil" =>
        \A c \in ColumnSet :
            (c \o "_idx") \in indexes <=>
                \E i \in 1..Len(sret.indexFields) : sret.indexFields[i] = c

-----------------------------------------------------------------------------
(* Properties of the build-and-execute path                                *)

\* C18: the columns of a statement of Query.Build are as many as the
\* destinations ExecuteQuery's decoder scans and in the same order: the
\* i-th column is the column of the i-th destination's field (the id column
\* for ID), so that the call succeeds and every decoded Event field holds
\* the value of its own column.
C18_BuildColumnsMatchDecoder ==
    sret.op = "ExecuteQuery" =>
        /\ Len(sret.columns) = Len(FieldsOrderDests)
        /\ \A i \in 1..Len(FieldsOrderDests) :
               i <= Len(sret.columns) =>
                   sret.columns[i] = IF FieldsOrderDests[i] = "ID" THEN IDColumn(backend)
                                     ELSE dbTag[FieldsOrderDests[i]]
        /\ \A i \in 1..Len(events) : events[i].nulls = {} =>
               /\ sret.err = "nil"
               /\ sret.events[i].ID = events[i].id
               /\ \A f \in EventFieldNames :
                      f # "Datetime" => sret.events[i][f] = events[i].cols[dbTag[f]]

-----------------------------------------------------------------------------
(* Properties of the RawQuery                                              *)

\* the statement Query.Build makes for the order column, page size, page and
\* dialect of a Query, without predicates, and its SELECT ... FROM part
PlainBuild(query) == Build([query EXCEPT !.predicates = <<>>]).sql

SelectPart(query) == "SELECT " \o SelectFields(query.dialect) \o " FROM log2timeline"

\* C19: RawQuery.Build returns no arguments and the statement Query.Build
\* makes for the same order column, page size and page, with " WHERE " and
\* the fragment, as it was given, put after the table name when the
\* fragment is not empty, and nothing put there when it is; SetRawWhere
\* makes its argument the fragment.
C19_RawBuildVerbatim ==
    /\ qret.op = "RawBuild" =>
           /\ qret.args = <<>>
           /\ SubSeq(PlainBuild(q), 1, Len(SelectPart(q))) = SelectPart(q)
           /\ qret.sql = SelectPart(q)
                             \o (IF rawWhere = "" THEN "" ELSE " WHERE " \o rawWhere)
                             \o SubSeq(PlainBuild(q), Len(SelectPart(q)) + 1,
                                       Len(PlainBuild(q)))
           /\ rawWhere = "" => qret.sql = PlainBuild(q)
    /\ qret.op \in {"SetRawWhere", "NewRaw"} => rawWhere = qret.where

\* a Build after SetRawWhere replaced the fragment, on a RawQuery with an
\* order column, a page size, a page past the first and a predicate
C19_Witness ==
    /\ qret.op = "RawBuild"
    /\ rawWhere = "host = 'WS2'"
    /\ q.orderBy # ""
    /\ q.pageSize > 0
    /\ q.page > 1
    /\ Len(q.predicates) > 0
    /\ qret.sql # PlainBuild(q)

-----------------------------------------------------------------------------
(* Properties of App.ImportCSV                                             *)

\* C20: an import that runs to its end while the App holds an open store,
\* SQLite or PostgreSQL, leaves the App on that store, creates no database,
\* and leaves in the event table every row that was there, followed by the
\* rows of the imported events.
C20_ImportAppendsToOpenStore ==
    /\ sret.op = "ImportCSV"
    /\ sret.stop = "none"
    /\ sret.err = "nil"
    /\ sret.storeBefore # NoStore
    => /\ app.store = sret.storeBefore
       /\ ~sret.created
       /\ Len(events) = Len(sret.before) + Len(sret.file)
       /\ \A i \in 1..Len(sret.before) : i <= Len(events) /\ events[i] = sret.before[i]

-----------------------------------------------------------------------------
(* Properties of App.QueryEvents and App.ExportCSV                         *)

\* the argument a request's filter compares with
FilterArg(f) ==
    IF f.operator \in {"LIKE", "NOT LIKE"} THEN "%" \o f.value \o "%" ELSE f.value

\* a filter of a request holds of a row
FilterHolds(be, row, f) ==
    /\ ResolveColumn(f.field) # ""
    /\ Compare3(be, row, f.field, f.operator, FilterArg(f)) = "T"

\* the filters of a request that make its date range, and the others
DateFilters(req) ==
    {i \in 1..Len(req.filters) : req.filters[i].field = "datetime"}

GroupFilters(req) ==
    {i \in 1..Len(req.filters) :
        /\ req.filters[i].field # "datetime"
        /\ req.filters[i].operator \in FilterOperators
        /\ ResolveColumn(req.filters[i].field) # ""}

\* the filter group of a request holds of a row, under the request's logic
FilterGroupHolds(be, row, req) ==
    \/ GroupFilters(req) = {}
    \/ /\ req.logic = "OR"
       /\ \E i \in GroupFilters(req) : FilterHolds(be, row, req.filters[i])
    \/ /\ req.logic # "OR"
       /\ \A i \in GroupFilters(req) : FilterHolds(be, row, req.filters[i])

\* the search text occurs in one of the searched columns of a row
SearchHolds(be, row, text) ==
    \E i \in 1..Len(searchFields) :
        /\ ResolveColumn(searchFields[i]) # ""
        /\ Compare3(be, row, searchFields[i], "LIKE", "%" \o text \o "%") = "T"

\* C21: every event the statement of QueryEvents or ExportCSV selects
\* satisfies the search text when there is one, is bookmarked when the
\* request is bookmark-only, lies in the date range when there is one, and
\* satisfies the filter group, under AND logic and under OR logic.
C21_SideConditionsConjoined ==
    sret.op \in {"App.QueryEvents", "App.ExportCSV"} =>
        \A i \in sret.matched :
            /\ sret.req.searchText # "" => SearchHolds(backend, events[i], sret.req.searchText)
            /\ sret.req.bookmarkOnly => events[i].cols["bookmark"] = 1
            /\ \A k \in DateFilters(sret.req) : FilterHolds(backend, events[i], sret.req.filters[k])
            /\ FilterGroupHolds(backend, events[i], sret.req)

\* the rows whose datetime lies strictly between 1970-01-01 and 2100-01-01
InHistogramRange(be, row) ==
    /\ Compare3(be, row, "datetime", ">", "1970-01-01") = "T"
    /\ Compare3(be, row, "datetime", "<", "2100-01-01") = "T"

\* C22: the histogram of a request counts exactly the events that the
\* statement of QueryEvents selects for the same request and whose datetime
\* lies strictly between 1970-01-01 and 2100-01-01.
C22_HistogramCountsQueryEvents ==
    sret.op = "App.GetTimelineHistogram" /\ app.store # NoStore =>
        \A r \in {App_QueryEvents(app, backend, events, sret.req)} :
            LET expected == {i \in r.matched : InHistogramRange(backend, events[i])}
            IN  /\ sret.kept = expected
                /\ TotalCount(sret.buckets) = Cardinality(expected)

-----------------------------------------------------------------------------
(* Properties of rendering and executing predicate trees                   *)

\* text contains sub
Occurs(sub, text) ==
    \E i \in 1..(Len(text) + 1) :
        i + Len(sub) - 1 <= Len(text) /\ SubSeq(text, i, i + Len(sub) - 1) = sub

\* a tree without any condition: nil, or a composite of two such trees
RECURSIVE NoCondition(_)
NoCondition(p) ==
    \/ p = Nil
    \/ p.kind = predNone
    \/ p.kind = predComposite /\ NoCondition(p.left) /\ NoCondition(p.right)

\* the logical meaning of a tree on an event, with LIKE read as "contains"
\* either with or without regard to the case of letters; a composite with
\* one side without condition means what its other side means
RECURSIVE Means(_, _, _)
Means(p, e, foldCase) ==
    IF NoCondition(p) THEN TRUE
    ELSE IF p.kind = predSimple
    THEN LET v == e[InsertBinding[p.field]]
             in == IF foldCase THEN Occurs(ToLower(p.value), ToLower(v))
                   ELSE Occurs(p.value, v)
         IN  CASE p.op = Equal -> v = p.value
               [] p.op = NotEqual -> v # p.value
               [] p.op = Like -> in
               [] p.op = NotLike -> ~in
               [] p.op = GreaterOrEqual -> v = p.value \/ StrLess(p.value, v)
               [] p.op = LessOrEqual -> v = p.value \/ StrLess(v, p.value)
    ELSE IF p.kind = predDate
    THEN /\ e["Datetime"] = p.date1 \/ StrLess(p.date1, e["Datetime"])
         /\ e["Datetime"] = p.date2 \/ StrLess(e["Datetime"], p.date2)
    ELSE IF NoCondition(p.left) THEN Means(p.right, e, foldCase)
    ELSE IF NoCondition(p.right) THEN Means(p.left, e, foldCase)
    ELSE LET l == Means(p.left, e, foldCase)
             r == Means(p.right, e, foldCase)
         IN  IF p.logic = OR THEN l \/ r ELSE l /\ r

\* C23: the two dialects render a tree with the same argument list, and
\* the two renderings, executed on stores seeded with the same events,
\* succeed and return the same rows: every row returned satisfies the
\* tree's meaning and every row satisfying it is returned.
C23_DialectsReturnSameRows ==
    combineRet.op = "RoundTrip" =>
        /\ combineRet.lite.where.args = combineRet.pg.where.args
        /\ combineRet.lite.err = "nil" /\ combineRet.pg.err = "nil"
        /\ combineRet.lite.kept = combineRet.pg.kept
        /\ \A i \in combineRet.lite.kept \cup combineRet.pg.kept :
               Means(combineRet.tree, SeedEvents[i], TRUE)
        /\ \A i \in 1..Len(SeedEvents) :
               Means(combineRet.tree, SeedEvents[i], FALSE)
                   => i \in combineRet.lite.kept \cap combineRet.pg.kept

\* the numbers of the placeholders $k of a text, in the order of the text
PlaceholderIndices(sql) ==
    LET at == {i \in 1..(Len(sql) - 1) : SubSeq(sql, i, i) = "$"}
        nth(k) == CHOOSE i \in at : Cardinality({j \in at : j < i}) = k - 1
        isDigit(i) == i <= Len(sql) /\ \E n \in 0..9 : ToString(n) = SubSeq(sql, i, i)
        digit(i) == CHOOSE n \in 0..9 : ToString(n) = SubSeq(sql, i, i)
    IN  [k \in 1..Cardinality(at) |->
            IF isDigit(nth(k) + 2) THEN 10 * digit(nth(k) + 1) + digit(nth(k) + 2)
            ELSE digit(nth(k) + 1)]

\* how many placeholders ? a text has
QuestionMarks(sql) == Cardinality({i \in 1..Len(sql) : SubSeq(sql, i, i) = "?"})

\* the simple and date-range nodes of a tree from left to right, each with
\* the index of its first placeholder when numbering starts at start
RECURSIVE LeavesInOrder(_, _)
LeavesInOrder(p, start) ==
    IF p = Nil \/ p.kind = predNone THEN <<>>
    ELSE IF p.kind = predSimple THEN <<[node |-> p, idx |-> start, width |-> 1]>>
    ELSE IF p.kind = predDate THEN <<[node |-> p, idx |-> start, width |-> 2]>>
    ELSE LET l == LeavesInOrder(p.left, start)
             used == IF Len(l) = 0 THEN 0 ELSE l[Len(l)].idx + l[Len(l)].width - start
         IN  l \o LeavesInOrder(p.right, start + used)

\* the text a leaf must have in the PostgreSQL rendering, given its index
LeafText(leaf) ==
    IF leaf.node.kind = predSimple
    THEN "(" \o pgQuoteCol(leaf.node.field) \o " " \o leaf.node.op \o " $"
             \o ToString(leaf.idx) \o ")"
    ELSE "(datetime BETWEEN $" \o ToString(leaf.idx) \o " AND $"
             \o ToString(leaf.idx + 1) \o ")"

\* the values a leaf binds, in order
LeafValues(leaf) ==
    IF leaf.node.kind = predSimple
    THEN <<IF leaf.node.op \in {Like, NotLike} THEN "%" \o leaf.node.value \o "%"
           ELSE leaf.node.value>>
    ELSE <<leaf.node.date1, leaf.node.date2>>

\* C24: a tree rendered from start index 1 returns n arguments and the
\* next index n + 1; the placeholders of the PostgreSQL text are $1 .. $n
\* in the order of the text (the SQLite text has n question marks); each
\* simple node takes one index and each date-range node two consecutive
\* ones, left subtree before right; and argument i is the value of the
\* node that holds placeholder i.
C24_PlaceholdersConsecutive ==
    combineRet.op = "Render" =>
        LET w == combineRet.where
            n == Len(w.args)
            leaves == LeavesInOrder(combineRet.tree, 1)
        IN  /\ w.next = n + 1
            /\ IF combineRet.dialect = "pgx"
               THEN PlaceholderIndices(w.sql) = [i \in 1..n |-> i]
               ELSE QuestionMarks(w.sql) = n
            /\ \A k \in 1..Len(leaves) :
                   /\ combineRet.dialect = "pgx" => Occurs(LeafText(leaves[k]), w.sql)
                   /\ SubSeq(w.args, leaves[k].idx, leaves[k].idx + leaves[k].width - 1)
                          = LeafValues(leaves[k])
            /\ n = IF Len(leaves) = 0 THEN 0
                   ELSE leaves[Len(leaves)].idx + leaves[Len(leaves)].width - 1

\* a composite whose left side is a composite of nil and a date range and
\* whose right side is a simple node, rendered for PostgreSQL
C24_Witness ==
    /\ combineRet.op = "Render"
    /\ combineRet.dialect = "pgx"
    /\ combineRet.tree.kind = predComposite
    /\ combineRet.tree.left.kind = predComposite
    /\ combineRet.tree.left.left = Nil
    /\ combineRet.tree.left.right.kind = predDate
    /\ combineRet.tree.right.kind = predSimple
    /\ combineRet.where.next = 4

-----------------------------------------------------------------------------
(* Properties of the progress callback                                     *)

\* the counts onProgress has to have been called with when `inserted` rows
\* are staged
ProgressCounts(inserted) ==
    [k \in 1..(inserted \div ProgressEvery) |-> k * ProgressEvery]

\* C25: while InsertEvents runs with a callback, the callback has been called
\* exactly once for each positive multiple of 10,000 that the count of staged
\* rows has reached, in increasing order and with that count; a batch of N
\* rows that succeeds has called it N div 10000 times; after a row has failed
\* it is not called, so every call was for a count below the failed row.
C25_ProgressEveryTenThousand ==
    /\ loop.onProgress => loop.calls = ProgressCounts(loop.inserted)
    /\ ~loop.onProgress => loop.calls = <<>>
    /\ loop.pc = "done" /\ loop.onProgress =>
           /\ loop.ret = loop.n
           /\ Len(loop.calls) = loop.n \div ProgressEvery
    /\ loop.pc = "failed" /\ loop.failAt >= 1 =>
           /\ loop.inserted = loop.failAt - 1
           /\ \A i \in 1..Len(loop.calls) : loop.calls[i] < loop.failAt

\* a batch of two intervals and one row went in, and the callback was called
\* at the end of each interval
C25_Witness ==
    /\ loop.pc = "done"
    /\ loop.onProgress
    /\ loop.n = 2 * ProgressEvery + 1
    /\ loop.calls = <<ProgressEvery, 2 * ProgressEvery>>

-----------------------------------------------------------------------------
(* Properties of overlapping ToggleBookmark calls                          *)

\* the calls on a row whose UPDATE has run
Toggled(rowid) ==
    {c \in 1..Len(toggles) : toggles[c].rowid = rowid /\ toggles[c].wrote # -1}

\* every call that came in has returned
AllReturned == \A c \in 1..Len(toggles) : toggles[c].pc = "done"

\* the flag after k toggles of a flag that was f
AfterToggles(f, k) == IF k % 2 = 0 THEN f ELSE 1 - f

\* C26: for a row that was there with flag 0 or 1 when the first of the
\* overlapping ToggleBookmark calls came in, whatever the order of the
\* statements of the calls, no toggle is lost: the stored flag is the initial
\* flag complemented once for each call whose UPDATE has run, so once k calls
\* have all returned without error it is the initial flag if k is even and
\* its complement if k is odd.
C26_NoToggleLost ==
    sret.op = "ToggleBookmark calls" =>
        \A rowid \in 1..MaxRows :
            StoredFlag(sret.before, rowid) \in {0, 1} =>
                StoredFlag(events, rowid)
                    = AfterToggles(StoredFlag(sret.before, rowid),
                                   Cardinality(Toggled(rowid)))

\* three calls on the row that was bookmarked have returned, their statements
\* having run interleaved (the second UPDATE ran before the first SELECT), and
\* the row is not bookmarked any more
C26_Witness ==
    /\ sret.op = "ToggleBookmark calls"
    /\ AllReturned
    /\ \E rowid \in 1..MaxRows :
           /\ StoredFlag(sret.before, rowid) = 1
           /\ StoredFlag(events, rowid) = 0
           /\ Cardinality(Toggled(rowid)) = 3
           /\ \E c \in Toggled(rowid) : toggles[c].val # toggles[c].wrote

\* C27: whatever the order of the statements of overlapping ToggleBookmark
\* calls on a row, the value a call returns is the value its own UPDATE wrote,
\* the complement of the flag just before that UPDATE.
C27_ReturnsOwnWrite ==
    \A c \in 1..Len(toggles) :
        /\ toggles[c].pc = "done"
        /\ toggles[c].err = "nil"
        /\ toggles[c].saw \in {0, 1}
        => /\ toggles[c].wrote = 1 - toggles[c].saw
           /\ toggles[c].val = toggles[c].wrote

-----------------------------------------------------------------------------
(* Properties of the order column across dialects                          *)

\* the id column of the dialect the query is not set to
OtherIDColumn(d) == IF d = "pgx" THEN IDColumn("sqlite") ELSE IDColumn("pgx")

\* C28: after any sequence of New, SetDialect, OrderBy, SetPage, SetLogic,
\* AddPredicate, RemovePredicate and ClearPredicates the order column of the
\* Query is empty, a column of model.Fields, or the id column of the dialect
\* the Query is set to, so the statement of Build never orders by the id
\* column of the other dialect.
C28_OrderColumnOfCurrentDialect ==
    /\ \/ q.orderBy = ""
       \/ q.orderBy \in FieldSet
       \/ q.orderBy = IDColumn(q.dialect)
    /\ qret.op = "Build" =>
           ~Contains(qret.sql, " ORDER BY " \o OtherIDColumn(q.dialect))

-----------------------------------------------------------------------------
(* Properties of the count of a RawQuery                                   *)

\* C29: for a RawQuery whose raw WHERE fragment is not empty, the statement
\* of BuildCount is a COUNT over log2timeline restricted by the same WHERE
\* fragment as the statement of Build: the raw fragment, verbatim.
C29_RawCountSharesWhere ==
    qret.op = "RawBuildCount" /\ rawWhere # "" =>
        /\ Contains(RawBuild(q, rawWhere).sql, " FROM log2timeline WHERE " \o rawWhere)
        /\ qret.sql = "SELECT COUNT(" \o IDColumn(q.dialect)
                          \o ") FROM log2timeline WHERE " \o rawWhere

-----------------------------------------------------------------------------
(* Properties of the session of the App                                    *)

\* the operations of the session model that need a store
StoreOperations == {"ToggleBookmark", "SaveQuery", "PushToPostgres"}

\* whenever the App holds a store, the store is open on the database of the
\* session, the driver names the backend of the store, and queryDialect is
\* the dialect of that backend
DriverNamesStore ==
    app.store # NoStore =>
        /\ app.store = [backend |-> backend, path |-> dbfile]
        /\ app.driver = DriverName(app.store.backend)
        /\ queryDialect(app) = app.store.backend

\* C30 as stated: after any sequence of OpenDatabase, ImportCSV,
\* ConnectPostgres, CreatePostgresDatabase, PushToPostgres and CloseDatabase,
\* succeeding or failing, the driver of the App names the backend of the store
\* it holds, and every operation that needs a store returns the error "no
\* database open" when the App holds none.
C30_NoDatabaseOpenEverywhere ==
    /\ DriverNamesStore
    /\ (sret.op \in StoreOperations /\ sret.storeBefore = NoStore) =>
           sret.err = "no database open"

\* C30, amended: the driver of the App names the backend of the store it
\* holds in every reachable state, and an operation that needs a store fails
\* when the App holds none: with "no database open", except PushToPostgres,
\* whose error is "no SQLite database is open" (also when the store held is a
\* PostgreSQL one).
C30_DriverNamesStoreOrNoneOpen ==
    /\ DriverNamesStore
    /\ (sret.op \in StoreOperations /\ sret.storeBefore = NoStore) =>
           sret.err = IF sret.op = "PushToPostgres"
                      THEN "no SQLite database is open"
                      ELSE "no database open"
    /\ (sret.op = "PushToPostgres" /\ sret.storeBefore # NoStore
            /\ sret.storeBefore.backend = "pgx") =>
           sret.err = "no SQLite database is open"

\* ConnectPostgres has replaced the SQLite store of the session: the driver
\* is now postgres
C30_Witness ==
    /\ sret.op = "ConnectPostgres"
    /\ sret.err = "nil"
    /\ sret.storeBefore # NoStore
    /\ sret.storeBefore.backend = "sqlite"
    /\ app.driver = "postgres"
    /\ events = <<>>

====
